---- MODULE Spec2Model ----
(***************************************************************************)
(* Model of the EcoWatt device: the acquisition scheduler                  *)
(* (src/cpp/src/acquisition_scheduler_new.cpp), the protocol adapter       *)
(* (src/cpp/src/protocol_adapter.cpp) and the Modbus RTU frame codec       *)
(* (src/cpp/src/modbus_frame.cpp).                                         *)
(*                                                                         *)
(* Scheduler.                                                              *)
(* A controlling thread ("main") calls the public operations of one        *)
(* AcquisitionScheduler; startPolling() spawns the polling worker, which   *)
(* runs pollingLoop().  Every statement that touches shared state is one   *)
(* step of the thread that executes it; a critical section that is not     *)
(* interrupted by a call into user code is one step.                       *)
(*                                                                         *)
(* Spec, SpecFair   life cycle: start, stop, subscribers, statistics       *)
(* SpecCycle        one poll cycle under every catalogue / minimum list    *)
(* SpecErrors       failed reads and the error subscribers                 *)
(* SpecClients      two threads calling startPolling and stopPolling       *)
(* SpecSubscribers  a sample subscriber that subscribes from its callback  *)
(* SpecCatalogue    configureRegisters, setMinimumRegisters beside a cycle *)
(* SpecRing         getRecentSamples and getSamplesByRegister on the ring  *)
(* SpecDevice       EcoWattDevice::startAcquisition and stopAcquisition    *)
(*                  (src/cpp/src/ecoWatt_device.cpp) over the scheduler    *)
(*                                                                         *)
(* The variables marked "history" record what a poll cycle did; the code   *)
(* has no such fields.  They are cleared when the cycle ends.              *)
(*                                                                         *)
(* Adapter.  A thread calls readRegisters, writeRegister and               *)
(* resetStatistics; the HTTP transport answers each post with any of the   *)
(* responses of HttpOutcomes.  Frames are hex strings, one character per   *)
(* element, and the codec computes on them as the code does.               *)
(*                                                                         *)
(* SpecAdapter      one thread, every operation and every response         *)
(* SpecThreads      two threads reading through one adapter                *)
(*                                                                         *)
(* Storage (src/cpp/src/data_storage.cpp).  MemoryDataStorage is the map   *)
(* samples_by_register_ of bounded deques, SQLiteDataStorage the rows of   *)
(* the table "samples", HybridDataStorage both of them and the retention   *)
(* sweeper.  Time is counted in days: the system clock stamps the samples, *)
(* the steady clock is the one cleanupOldData reads.                       *)
(*                                                                         *)
(* SpecMemory       store, batch store and clear on a MemoryDataStorage    *)
(* SpecSQLite       store, query and cleanup on a SQLiteDataStorage        *)
(* SpecHybrid       store and latest-sample lookup on a HybridDataStorage  *)
(* SpecSweeper      the cleanup thread of a HybridDataStorage              *)
(* SpecBatch        storeSamples of a SQLiteDataStorage beside a reader    *)
(* SpecTeardown     start, stop and destruction of the sweeper by the owner*)
(* SpecSweeperCalls the same calls made by two threads                     *)
(*                                                                         *)
(* Codec.  SpecCodec applies createReadFrame, createWriteFrame and         *)
(* parseResponse to each input of CodecInputs.                             *)
(***************************************************************************)
EXTENDS Integers, Sequences, FiniteSets, TLC

(***************************************************************************)
(* Bounds of the model.                                                    *)
(***************************************************************************)
\* poll cycles counted before the worker is held back (total_polls is a uint64)
MaxPolls == 2
\* capacity of the scheduler ring; the constructor sets max_buffer_size_ to
\* 10000, the model keeps the eviction rule on a short ring
MaxBuffer == 1
\* longest subscriber list the controller builds
MaxSubs == 2
\* polling_interval, in clock ticks of the inter-cycle sleep
PollingTicks == 1

\* register addresses of the model
Addresses == {0, 1}
\* catalogues handed to configureRegisters (the keys of the map)
Catalogues == {{}, {1}, {0, 1}}
\* lists handed to setMinimumRegisters
MinimumLists == {<<>>, <<0, 1>>, <<1, 0>>, <<0, 0>>}
\* what a subscriber does with a publication: return, or raise a std::exception
CallbackKinds == {"returns", "raises"}
\* a subscriber that calls addSampleCallback from inside its callback
SubscribingKinds == CallbackKinds \cup {"subscribes"}
\* what locking callbacks_mutex_ a second time on the same thread does
RelockOutcomes == {"blocks", "throws"}
\* what an error subscriber does with a publication
ErrorCallbackKinds == {"returns"}
\* what the adapter does with one readHoldingRegisters(address, 1) call:
\* a data response, an exception response (is_error), a response without
\* data, or a thrown ModbusException (transport failure)
ReadOutcomes == {"data", "is_error", "empty", "throws"}
\* the threads that call the public operations
Clients == {"main"}
\* every thread that can call the scheduler: the controlling thread, a second
\* thread, and the thread inside EcoWattDevice::startAcquisition/stopAcquisition
SchedulerCallers == Clients \cup {"second", "device"}
\* the threads that call startCleanupTask/stopCleanupTask of one hybrid store
StoreCallers == {"c1", "c2"}

NoSamplesAcquired == "No samples acquired"

VARIABLES
    polling_active_,     \* std::atomic<bool>
    stop_requested_,     \* std::atomic<bool>
    polling_thread_,     \* "null" | "joinable" | "joined"
    register_configs_,   \* keys of the catalogue map
    minimum_registers_,  \* vector of addresses
    sample_callbacks_,   \* vector of sample subscribers (their behaviour)
    error_callbacks_,    \* vector of error subscribers (their behaviour)
    sample_buffer_,      \* the scheduler ring, oldest first
    statistics_,         \* AcquisitionStatistics
    buffer_mutex_,       \* owner of buffer_mutex_, or "free"
    callbacks_mutex_,    \* owner of callbacks_mutex_, or "free"
    cpc,                 \* position of each client thread
    wpc,                 \* position of the polling worker
    addresses_to_read,   \* local of performPollCycle
    read_idx,            \* loop index of readMultipleRegisters
    samples,             \* local of performPollCycle: the acquired samples
    store_idx,           \* loop index over samples in performPollCycle
    cb_idx,              \* loop index over sample_callbacks_ in storeSample
    sleep_left,          \* ticks the worker still sleeps
    polled,              \* history: addresses the adapter was asked for, this cycle
    read_failures,       \* history: reads of this cycle that produced no sample
    pushed,              \* history: addresses appended to the ring, this cycle
    delivered,           \* history: <<subscriber, address>> invocations, this cycle
    error_notified,      \* history: invocations of error subscribers, this cycle
    cycle_union,         \* history: catalogue \cup minimum registers at the snapshot
    cycle_subs,          \* history: subscribers registered when the cycle began
    stop_at_read,        \* history: stop_requested_ was set when the latest
                         \* adapter call of this cycle was made
    stop_returned        \* history: stopPolling() has returned and startPolling()
                         \* was not called since

VARIABLES
    max_retries,         \* modbus_config_.max_retries
    stats_,              \* CommunicationStats (the four counters)
    apc,                 \* position of each thread that calls the adapter
    request,             \* the call a thread is in: operation and arguments
    request_frame,       \* local of readRegisters / writeRegister
    attempt,             \* local of sendRequest
    response_frame,      \* local of readRegisters / writeRegister
    pending_stats,       \* updateStats: counters still to be incremented
    loaded,              \* updateStats: counter value read, not yet written back
    after_stats,         \* where the thread continues after updateStats
    result,              \* what the call returns or throws
    calls_made,          \* history: calls of readRegisters / writeRegister so far
    attempt_log,         \* history: what each HTTP post of this call produced
    stats_before         \* history: stats_ when this call was made

adapter_vars == <<max_retries, stats_, apc, request, request_frame, attempt, response_frame,
                  pending_stats, loaded, after_stats, result, calls_made, attempt_log,
                  stats_before>>

VARIABLES
    config_,                \* HybridDataStorage::config_ (StorageConfig)
    samples_by_register_,   \* MemoryDataStorage: map address -> deque of samples
    db_samples,             \* SQLiteDataStorage: rows of the table "samples", by id
    system_now,             \* std::chrono::system_clock::now(), in days
    steady_epoch,           \* the day on which std::chrono::steady_clock reads zero
    cleanup_active_,        \* HybridDataStorage::cleanup_active_
    cleanup_thread_,        \* HybridDataStorage::cleanup_thread_: "none" or "thread"
    spc,                    \* position of the cleanup thread in cleanupLoop
    storage_result,         \* what the last query returned
    storage_op,             \* history: the last storage operation and its arguments
    store_log               \* history: the samples stored, in store order

storage_vars == <<config_, samples_by_register_, db_samples, system_now, steady_epoch,
                  cleanup_active_, cleanup_thread_, spc, storage_result, storage_op,
                  store_log>>

VARIABLES
    codec_in,               \* the codec function applied and its arguments
    codec_out,              \* what the function returned or threw
    codec_check             \* validateFrame(hexToBytes(frame)) of a built frame

codec_vars == <<codec_in, codec_out, codec_check>>

VARIABLES
    is_running_,            \* EcoWattDevice::is_running_
    dpc,                    \* where the caller of the device is in start/stopAcquisition
    hpc,                    \* the call each caller of the hybrid store is in, and where
    sqlite_storage_,        \* HybridDataStorage::sqlite_storage_: "open" or "released"
    ring_query              \* the last query of the scheduler ring and what it returned

caller_vars == <<is_running_, dpc, hpc, sqlite_storage_, ring_query>>

VARIABLE
    max_buffer_size_        \* AcquisitionScheduler::max_buffer_size_, set by the constructor

worker_vars == <<wpc, addresses_to_read, read_idx, samples, store_idx, cb_idx, sleep_left>>
history_vars == <<polled, read_failures, pushed, delivered, error_notified, cycle_union,
                  cycle_subs, stop_at_read>>
config_vars == <<register_configs_, minimum_registers_, sample_callbacks_, error_callbacks_>>
flag_vars == <<polling_active_, stop_requested_, polling_thread_>>
scheduler_vars == <<flag_vars, config_vars, sample_buffer_, statistics_, buffer_mutex_,
                    callbacks_mutex_, cpc, worker_vars, history_vars, stop_returned>>
vars == <<scheduler_vars, adapter_vars, storage_vars, codec_vars, caller_vars,
         max_buffer_size_>>
\* what an action of the scheduler, and of the adapter, leaves alone
beside_scheduler == <<adapter_vars, storage_vars, codec_vars, caller_vars,
                     max_buffer_size_>>
beside_adapter == <<scheduler_vars, storage_vars, codec_vars, caller_vars,
                     max_buffer_size_>>
beside_storage == <<scheduler_vars, adapter_vars, codec_vars, caller_vars,
                     max_buffer_size_>>
beside_codec == <<scheduler_vars, adapter_vars, storage_vars, caller_vars,
                     max_buffer_size_>>

(***************************************************************************)
(* Helpers.                                                                *)
(***************************************************************************)
Range(s) == {s[i] : i \in 1..Len(s)}

Min(S) == CHOOSE x \in S : \A y \in S : x <= y

\* iteration order of std::map<RegisterAddress, RegisterConfig>: ascending keys
RECURSIVE MapKeys(_)
MapKeys(S) == IF S = {} THEN <<>> ELSE <<Min(S)>> \o MapKeys(S \ {Min(S)})

IsAscending(s) == \A i \in 1..Len(s), j \in 1..Len(s) : i < j => s[i] < s[j]

\* AcquisitionStatistics{}
EmptyStatistics ==
    [total_polls |-> 0, successful_polls |-> 0, failed_polls |-> 0, last_error |-> ""]

NoSubscribers == [sample |-> 0, error |-> 0]

(***************************************************************************)
(* The Modbus RTU frame codec (modbus_frame.cpp).  A byte is a number in   *)
(* 0..255, a frame a sequence of bytes, a hex string a sequence of         *)
(* one-character strings.                                                  *)
(***************************************************************************)
\* ModbusFunction::READ_HOLDING_REGISTERS
READ_HOLDING_REGISTERS == 3
\* ModbusFunction::WRITE_SINGLE_REGISTER
WRITE_SINGLE_REGISTER == 6
\* modbus_config_.slave_address, as the adapter tests configure it (0x11)
SlaveAddress == 17
\* the largest register count readRegisters takes
MaxRegistersPerRead == 125

\* bitwise exclusive or of two naturals
RECURSIVE Xor(_, _)
Xor(a, b) ==
    IF a = 0 THEN b
    ELSE IF b = 0 THEN a
    ELSE (((a % 2) + (b % 2)) % 2) + 2 * Xor(a \div 2, b \div 2)

\* the inner loop of calculateCRC: i shifts of the 16-bit register
RECURSIVE CrcShift(_, _)
CrcShift(crc, i) ==
    IF i = 0 THEN crc
    ELSE IF crc % 2 = 1 THEN CrcShift(Xor(crc \div 2, 40961), i - 1)
    ELSE CrcShift(crc \div 2, i - 1)

\* the outer loop of calculateCRC
RECURSIVE CrcBytes(_, _)
CrcBytes(crc, data) ==
    IF data = <<>> THEN crc
    ELSE CrcBytes(CrcShift(Xor(crc, Head(data)), 8), Tail(data))

\* a CRC register that starts at zero
calculateCRCFromZero(data) == CrcBytes(0, data)

\* uint16_t crc = 0xFFFF; for (uint8_t byte : data) { ... }
calculateCRC(data) == CrcBytes(65535, data)

\* the CRC appended high byte first
appendCRCBigEndian(frame) ==
    frame \o <<(calculateCRC(frame) \div 256) % 256, calculateCRC(frame) % 256>>

\* frame.push_back(crc & 0xFF); frame.push_back((crc >> 8) & 0xFF)
appendCRC(frame) == frame \o <<calculateCRC(frame) % 256, (calculateCRC(frame) \div 256) % 256>>

buildFrame(slave_address, function_code, data) ==
    appendCRC(<<slave_address, function_code>> \o data)

\* the digits std::hex << std::uppercase writes
UpperHexChars == <<"0", "1", "2", "3", "4", "5", "6", "7", "8", "9",
                   "A", "B", "C", "D", "E", "F">>
LowerHexChars == <<"0", "1", "2", "3", "4", "5", "6", "7", "8", "9",
                   "a", "b", "c", "d", "e", "f">>

isValidHexChar(c) == c \in Range(UpperHexChars) \cup Range(LowerHexChars)

hexCharToValue(c) ==
    IF c \in Range(UpperHexChars)
       THEN (CHOOSE i \in 1..16 : UpperHexChars[i] = c) - 1
       ELSE IF c \in Range(LowerHexChars)
               THEN (CHOOSE i \in 1..16 : LowerHexChars[i] = c) - 1
               ELSE 0

\* ss << std::setw(2) << static_cast<int>(byte), for every byte
RECURSIVE bytesToHex(_)
bytesToHex(data) ==
    IF data = <<>> THEN <<>>
    ELSE <<UpperHexChars[(Head(data) \div 16) + 1], UpperHexChars[(Head(data) % 16) + 1]>>
         \o bytesToHex(Tail(data))

\* the result of an operation that throws: the exception and what it carries
Throws(exception, what) == [throws |-> exception, what |-> what]
IsThrow(x) == "throws" \in DOMAIN x

\* hexToBytes: the bytes, or the ValidationException it throws
hexToBytes(hex_string) ==
    IF Len(hex_string) % 2 # 0
       THEN Throws("ValidationException", "Hex string length must be even")
    ELSE IF \E i \in 1..Len(hex_string) : ~isValidHexChar(hex_string[i])
       THEN Throws("ValidationException", "Invalid hex character in string")
    ELSE [bytes |-> [i \in 1..(Len(hex_string) \div 2) |->
                        hexCharToValue(hex_string[2 * i - 1]) * 16
                        + hexCharToValue(hex_string[2 * i])]]

\* a validation that looks at the length only
validateFrameLengthOnly(frame_bytes) == Len(frame_bytes) >= 5

\* validateFrame: at least 5 bytes, and the trailing little-endian CRC
\* equals the CRC of the bytes before it
validateFrame(frame_bytes) ==
    /\ Len(frame_bytes) >= 5
    /\ frame_bytes[Len(frame_bytes) - 1] + 256 * frame_bytes[Len(frame_bytes)]
         = calculateCRC(SubSeq(frame_bytes, 1, Len(frame_bytes) - 2))

createReadFrame(slave_address, start_address, num_registers) ==
    bytesToHex(buildFrame(slave_address, READ_HOLDING_REGISTERS,
                          <<(start_address \div 256) % 256, start_address % 256,
                            (num_registers \div 256) % 256, num_registers % 256>>))

createWriteFrame(slave_address, register_address, value) ==
    bytesToHex(buildFrame(slave_address, WRITE_SINGLE_REGISTER,
                          <<(register_address \div 256) % 256, register_address % 256,
                            (value \div 256) % 256, value % 256>>))

\* ModbusResponse
ModbusResponse(slave_address, function_code, data, is_error, error_code) ==
    [slave_address |-> slave_address, function_code |-> function_code, data |-> data,
     is_error |-> is_error, error_code |-> error_code]

\* parseResponse, after the frame has passed hexToBytes, the length check
\* and the CRC check
ParseBytes(frame_bytes) ==
    IF frame_bytes[2] >= 128
       THEN ModbusResponse(frame_bytes[1], frame_bytes[2] - 128, <<>>, TRUE, frame_bytes[3])
    ELSE IF frame_bytes[2] = READ_HOLDING_REGISTERS
       THEN IF Len(frame_bytes) < 3 + frame_bytes[3] + 2
               THEN Throws("ModbusException", "Frame size mismatch with byte count")
               ELSE ModbusResponse(frame_bytes[1], frame_bytes[2],
                                   SubSeq(frame_bytes, 4, 3 + frame_bytes[3]), FALSE, 0)
    ELSE ModbusResponse(frame_bytes[1], frame_bytes[2],
                        SubSeq(frame_bytes, 3, Len(frame_bytes) - 2), FALSE, 0)

\* parseResponse: the ModbusResponse, or the ModbusException it throws
parseResponse(frame_hex) ==
    IF frame_hex = <<>>
       THEN Throws("ModbusException", "Empty response frame")
    ELSE IF IsThrow(hexToBytes(frame_hex))
       THEN Throws("ModbusException", "Invalid hex frame")
    ELSE IF Len(hexToBytes(frame_hex).bytes) < 5
       THEN Throws("ModbusException", "Frame too short (minimum 5 bytes required)")
    ELSE IF ~validateFrame(hexToBytes(frame_hex).bytes)
       THEN Throws("ModbusException", "CRC validation failed")
    ELSE ParseBytes(hexToBytes(frame_hex).bytes)

(***************************************************************************)
(* The protocol adapter (protocol_adapter.cpp): inputs of the model.       *)
(***************************************************************************)
\* largest modbus.max_retries the model configures (the default is 3)
MaxRetryBudget == 3
\* calls of readRegisters / writeRegister one adapter serves in the model
MaxCalls == 2

\* values of modbus.max_retries; the configuration loader accepts any number
RetryBudgets == 0..MaxRetryBudget
\* the threads that call the adapter
AdapterThreads == {"t1", "t2"}
\* arguments of readRegisters(start_address, num_registers)
ReadCounts == {0, 1, 2, 125, 126}
ReadRequests ==
    {[op |-> "read", start_address |-> 0, num_registers |-> n] : n \in ReadCounts}
\* arguments of writeRegister(register_address, value)
WriteRequests == {[op |-> "write", register_address |-> 8, value |-> 100]}
NoRequest == [op |-> "none"]

\* frames the inverter API answers with
ReadResponseOne == bytesToHex(buildFrame(SlaveAddress, READ_HOLDING_REGISTERS, <<2, 9, 196>>))
ReadResponseTwo ==
    bytesToHex(buildFrame(SlaveAddress, READ_HOLDING_REGISTERS, <<4, 9, 196, 4, 78>>))
ReadResponseHalf == bytesToHex(buildFrame(SlaveAddress, READ_HOLDING_REGISTERS, <<1, 9>>))
\* a read response whose byte count (2) is followed by four data bytes, with
\* the CRC of the whole frame
LongReadResponse ==
    bytesToHex(buildFrame(SlaveAddress, READ_HOLDING_REGISTERS, <<2, 9, 196, 4, 78>>))
\* exception responses: illegal data address (0x02) to a read, illegal data
\* value (0x03) to a write
ExceptionResponse == bytesToHex(buildFrame(SlaveAddress, READ_HOLDING_REGISTERS + 128, <<2>>))
WriteExceptionResponse ==
    bytesToHex(buildFrame(SlaveAddress, WRITE_SINGLE_REGISTER + 128, <<3>>))
WriteEcho == bytesToHex(buildFrame(SlaveAddress, WRITE_SINGLE_REGISTER, <<0, 8, 0, 100>>))
WriteEchoOtherAddress ==
    bytesToHex(buildFrame(SlaveAddress, WRITE_SINGLE_REGISTER, <<0, 9, 0, 100>>))
WriteEchoOtherValue ==
    bytesToHex(buildFrame(SlaveAddress, WRITE_SINGLE_REGISTER, <<0, 8, 0, 101>>))
WriteEchoShort == bytesToHex(buildFrame(SlaveAddress, WRITE_SINGLE_REGISTER, <<0>>))
OtherFunctionResponse == bytesToHex(buildFrame(SlaveAddress, 16, <<0, 8, 0, 1>>))
\* frames that are invalid for the codec
OddLengthFrame == SubSeq(ReadResponseOne, 1, Len(ReadResponseOne) - 1)
NonHexFrame == <<"G">> \o Tail(ReadResponseOne)
ShortFrame == bytesToHex(<<SlaveAddress, READ_HOLDING_REGISTERS, 0, 0>>)
BadCrcFrame == SubSeq(ReadResponseOne, 1, Len(ReadResponseOne) - 1)
               \o <<IF ReadResponseOne[Len(ReadResponseOne)] = "0" THEN "1" ELSE "0">>

InvalidFrames == {OddLengthFrame, NonHexFrame, ShortFrame, BadCrcFrame}
ResponseFrames ==
    {ReadResponseOne, ReadResponseTwo, ReadResponseHalf, ExceptionResponse,
     WriteExceptionResponse, WriteEcho, WriteEchoOtherAddress, WriteEchoOtherValue, WriteEchoShort, OtherFunctionResponse}
    \cup InvalidFrames

\* parseResponse on each of the frames
ParsedResponses == [f \in ResponseFrames |-> parseResponse(f)]

\* HttpResponse::isSuccess
isSuccess(response) == response.status_code >= 200 /\ response.status_code < 300

\* HttpResponse::status_code
StatusCodes == {200, 500}
\* HttpResponse::body: text that is not JSON, or a JSON object with its keys
\* and the string under "frame" (empty when the key is absent)
Bodies ==
    {[valid_json |-> FALSE, keys |-> {}, frame |-> <<>>],
     [valid_json |-> TRUE, keys |-> {"status"}, frame |-> <<>>],
     [valid_json |-> TRUE, keys |-> {"frame"}, frame |-> <<>>]}
    \cup {[valid_json |-> TRUE, keys |-> {"frame"}, frame |-> f] : f \in ResponseFrames}
\* what http_client_->post does: it throws an HttpException (curl error,
\* timeout) or returns a response
\* (a non-2xx answer comes with an error page or, to show that the status is
\* looked at first, with a valid frame)
HttpOutcomes ==
    {[failed |-> TRUE, status_code |-> 0,
      body |-> [valid_json |-> FALSE, keys |-> {}, frame |-> <<>>]]}
    \cup {h \in [failed : {FALSE}, status_code : StatusCodes, body : Bodies] :
             isSuccess(h) \/ h.body.frame \in {<<>>, ReadResponseOne}}
\* the transport of the threaded runs: the server is down or answers one
\* register
ThreadHttpOutcomes ==
    {h \in HttpOutcomes :
        \/ h.failed
        \/ h.status_code = 200 /\ h.body.frame = ReadResponseOne}

\* CommunicationStats{}
EmptyStats ==
    [total_requests |-> 0, successful_requests |-> 0, failed_requests |-> 0,
     retry_attempts |-> 0]

Pending == [pending |-> TRUE]
\* the ModbusException(error_code, description) of an exception response
ThrowsCode(error_code) ==
    [throws |-> "ModbusException", what |-> "Modbus Error", error_code |-> error_code]

\* parseRegisterValues: big-endian words, or the exception for an odd length
parseRegisterValues(data) ==
    IF Len(data) % 2 # 0
       THEN Throws("ModbusException", "Invalid data length for register values")
       ELSE [values |-> [i \in 1..(Len(data) \div 2) |-> data[2 * i - 1] * 256 + data[2 * i]]]

(***************************************************************************)
(* Storage: samples, rows, clocks and the operations on the two tiers.     *)
(***************************************************************************)
\* largest max_samples_per_register of the model
MaxCapacity == 2
\* samples handed to one storage in a run
MaxStores == 2
\* last day of the system clock; a timestamp is a day of 0..MaxDay
MaxDay == 2
\* largest data_retention_days of the model
MaxRetention == 2

Days == 0..MaxDay

\* what the catalogue says of each register: name, unit, and the raw value
\* the inverter reports (the scaled value is raw / gain, kept in tenths)
RegisterNames == [a \in Addresses |-> IF a = 0 THEN "Voltage" ELSE "Current"]
RegisterUnits == [a \in Addresses |-> IF a = 0 THEN "V" ELSE "A"]
RawValues == [a \in Addresses |-> IF a = 0 THEN 2300 ELSE 450]

\* AcquisitionSample(ts, addr, name, raw, scaled, u)
AcquisitionSample(ts, addr) ==
    [timestamp |-> ts, register_address |-> addr, register_name |-> RegisterNames[addr],
     raw_value |-> RawValues[addr], scaled_value |-> RawValues[addr],
     unit |-> RegisterUnits[addr]]

\* the samples handed to storeSample, and the vectors handed to storeSamples
StoredSamples == {AcquisitionSample(ts, addr) : ts \in Days, addr \in Addresses}
Batches == {<<>>} \cup {<<s1, s2>> : s1 \in StoredSamples, s2 \in StoredSamples}

\* StorageConfig as types.hpp initialises it
DefaultStorageConfig ==
    [memory_retention_samples |-> 1000, enable_persistent_storage |-> TRUE,
     data_retention_days |-> 30]
\* the configurations of the model
StorageConfigs ==
    [memory_retention_samples : 0..MaxCapacity, enable_persistent_storage : BOOLEAN,
     data_retention_days : 0..MaxRetention]

\* std::map<RegisterAddress, std::deque<AcquisitionSample>>; an address
\* without a key is an address with an empty deque
EmptyMap == [a \in Addresses |-> <<>>]

\* a deque that evicts on reaching the limit
ExceedsLimitInclusive(size, limit) == size >= limit

\* samples.size() > max_samples_per_register_
ExceedsLimit(size, limit) == size > limit

\* MemoryDataStorage::storeSample: push_back, then pop_front over the limit
Memory_storeSample(map, limit, sample) ==
    LET longer == Append(map[sample.register_address], sample)
    IN  [map EXCEPT ![sample.register_address] =
            IF ExceedsLimit(Len(longer), limit) THEN Tail(longer) ELSE longer]

\* MemoryDataStorage::storeSamples: storeSample for each, in order
RECURSIVE Memory_storeSamples(_, _, _)
Memory_storeSamples(map, limit, batch) ==
    IF batch = <<>> THEN map
    ELSE Memory_storeSamples(Memory_storeSample(map, limit, Head(batch)), limit, Tail(batch))

\* MemoryDataStorage::clearSamples
Memory_clearSamples(map, register_address, clear_all) ==
    IF clear_all \/ register_address = 0
       THEN EmptyMap
       ELSE [map EXCEPT ![register_address] = <<>>]

\* MemoryDataStorage::getLatestSample: the back of the deque, or nullptr
Memory_getLatestSample(map, register_address) ==
    IF map[register_address] = <<>>
       THEN <<>>
       ELSE <<map[register_address][Len(map[register_address])]>>

\* the row SQLiteDataStorage::storeSample binds: register_address, value
\* (the raw value as a REAL) and timestamp; name, scaled value and unit
\* have no column
RowOf(sample) ==
    [register_address |-> sample.register_address, value |-> sample.raw_value,
     timestamp |-> sample.timestamp]

\* the sample getSamples builds from a row: a default-initialised
\* AcquisitionSample whose register_address, raw_value and timestamp are
\* assigned; scaled_value keeps whatever the memory held
SampleOf(row, indeterminate) ==
    [timestamp |-> row.timestamp, register_address |-> row.register_address,
     register_name |-> "", raw_value |-> row.value, scaled_value |-> indeterminate,
     unit |-> ""]

\* values an uninitialised double may hold
IndeterminateDoubles == {0, RawValues[0]}

\* INSERT INTO samples (register_address, value, timestamp)
SQLite_storeSample(table, sample) == Append(table, RowOf(sample))

RECURSIVE SQLite_storeSamples(_, _)
SQLite_storeSamples(table, batch) ==
    IF batch = <<>> THEN table
    ELSE SQLite_storeSamples(SQLite_storeSample(table, Head(batch)), Tail(batch))

\* WHERE register_address = ?
RowsOf(table, register_address) ==
    SelectSeq(table, LAMBDA row : row.register_address = register_address)

\* ORDER BY timestamp ASC
OlderOrEqual(a, b) == a.timestamp <= b.timestamp

\* ORDER BY timestamp DESC: a row never comes before a newer one
NewerOrEqual(a, b) == a.timestamp >= b.timestamp

\* the orders ORDER BY timestamp DESC may produce (rows of equal timestamp
\* come in any order)
OrderByTimestampDesc(rows) ==
    LET n == Len(rows)
        orders == {p \in [1..n -> 1..n] :
                      /\ \A i, j \in 1..n : i # j => p[i] # p[j]
                      /\ \A i, j \in 1..n : i < j => NewerOrEqual(rows[p[i]], rows[p[j]])}
    IN  {[i \in 1..n |-> rows[p[i]]] : p \in orders}

\* LIMIT count, appended to the query when count > 0
Limit(rows, count) ==
    IF count > 0 /\ count < Len(rows) THEN SubSeq(rows, 1, count) ELSE rows

\* the row sequences SQLiteDataStorage::getSamples may step through
SQLite_getSamples(table, register_address, count) ==
    {Limit(rows, count) : rows \in OrderByTimestampDesc(RowsOf(table, register_address))}

\* the samples built from the rows, one indeterminate scaled_value each
SamplesOf(rows) ==
    {[i \in 1..Len(rows) |-> SampleOf(rows[i], g[i])] :
        g \in [1..Len(rows) -> IndeterminateDoubles]}

\* DELETE FROM samples WHERE timestamp < ?
Expired(row, cutoff) == row.timestamp < cutoff

\* SQLiteDataStorage::cleanupOldData: the cutoff is taken from
\* steady_clock::now(), whose reading on day d is d - epoch
SQLite_cleanupOldData(table, steady_now, retention_days) ==
    SelectSeq(table, LAMBDA row : ~Expired(row, steady_now - retention_days))

\* a hybrid storage that writes the durable tier whatever the configuration
PersistsAlways(config) == TRUE

\* if (config_.enable_persistent_storage)
PersistsSamples(config) == config.enable_persistent_storage

\* if (config_.data_retention_days > 0)
RetentionConfigured(config) == config.data_retention_days > 0

\* HybridDataStorage::getLatestSample: memory first, then the durable tier
Hybrid_getLatestSample(map, table, register_address) ==
    IF Memory_getLatestSample(map, register_address) # <<>>
       THEN {Memory_getLatestSample(map, register_address)}
       ELSE UNION {SamplesOf(rows) : rows \in SQLite_getSamples(table, register_address, 1)}

\* the table a database file may hold when the storage opens it
ExistingTables == {<<>>, <<RowOf(AcquisitionSample(0, 1))>>}

\* the epochs the steady clock may count from when the system clock reads
\* `now`: the epoch of the system clock, or the start of the machine
SteadyEpochs(now) == {0, now}

NoOperation == [op |-> "none"]

\* the storage after construction
StorageInit(config, table, now, epoch) ==
    /\ config_ = config
    /\ samples_by_register_ = EmptyMap
    /\ db_samples = table
    /\ system_now = now
    /\ steady_epoch = epoch
    /\ cleanup_active_ = FALSE
    /\ cleanup_thread_ = "none"
    /\ spc = "none"
    /\ storage_result = <<>>
    /\ storage_op = NoOperation
    /\ store_log = <<>>

(***************************************************************************)
(* Codec: the calls SpecCodec makes.                                       *)
(***************************************************************************)
\* uint8_t slave addresses, uint16_t register addresses, values and counts
CodecSlaves == {0, 1, SlaveAddress, 255}
CodecAddresses == {0, 8, 255, 256, 65535}
CodecWords == {0, 1, 2, 100, 125, 126, 65535}

\* lower-case spelling of a hex string
ToLower(hex_string) ==
    [i \in 1..Len(hex_string) |->
        IF hex_string[i] \in Range(UpperHexChars)
           THEN LowerHexChars[CHOOSE k \in 1..16 : UpperHexChars[k] = hex_string[i]]
           ELSE hex_string[i]]

\* frames handed to parseResponse: the responses of the adapter model, their
\* lower-case spellings, frames cut short or damaged, and a read response
\* longer than its byte count announces
ParseInputs ==
    ResponseFrames
    \cup {ToLower(f) : f \in ResponseFrames}
    \cup {<<>>, <<"1">>, SubSeq(ReadResponseOne, 1, 8), SubSeq(ReadResponseTwo, 1, 10),
          SubSeq(ReadResponseTwo, 1, 9), <<"1", "1", "0", "3", "z", "z">>,
          SubSeq(ReadResponseTwo, 1, Len(ReadResponseTwo) - 1) \o <<"g">>,
          LongReadResponse}

CodecInputs ==
    [op : {"createReadFrame", "createWriteFrame"}, slave_address : CodecSlaves,
     address : CodecAddresses, word : CodecWords]
    \cup [op : {"parseResponse"}, frame_hex : ParseInputs]

NoCodecCall == [op |-> "none"]

CodecInit(call) ==
    /\ codec_in = call
    /\ codec_out = Pending
    /\ codec_check = Pending

NoQuery == [op |-> "none"]

\* a caller of the hybrid store that is in no call
Idle == [call |-> "none", at |-> "idle"]

\* the device after its constructor (is_running_{false}), the hybrid store
\* with its durable store open, and no call in progress
CallerInit ==
    /\ is_running_ = FALSE
    /\ dpc = "idle"
    /\ hpc = [c \in StoreCallers |-> Idle]
    /\ sqlite_storage_ = "open"
    /\ ring_query = NoQuery

\* the capacity the constructor gives the ring
RingInit(capacity) == max_buffer_size_ = capacity

SchedulerInit ==
    /\ polling_active_ = FALSE
    /\ stop_requested_ = FALSE
    /\ polling_thread_ = "null"
    /\ register_configs_ = {}
    /\ minimum_registers_ = <<0, 1>>
    /\ sample_callbacks_ = <<>>
    /\ error_callbacks_ = <<>>
    /\ sample_buffer_ = <<>>
    /\ statistics_ = EmptyStatistics
    /\ buffer_mutex_ = "free"
    /\ callbacks_mutex_ = "free"
    /\ cpc = [c \in SchedulerCallers |-> "idle"]
    /\ wpc = "none"
    /\ addresses_to_read = <<>>
    /\ read_idx = 1
    /\ samples = <<>>
    /\ store_idx = 1
    /\ cb_idx = 1
    /\ sleep_left = 0
    /\ polled = <<>>
    /\ read_failures = 0
    /\ pushed = <<>>
    /\ delivered = <<>>
    /\ error_notified = 0
    /\ cycle_union = {}
    /\ cycle_subs = NoSubscribers
    /\ stop_at_read = FALSE
    /\ stop_returned = FALSE

\* the adapter after its constructor, with max_retries as configured
AdapterInit(retries) ==
    /\ max_retries = retries
    /\ stats_ = EmptyStats
    /\ apc = [t \in AdapterThreads |-> "idle"]
    /\ request = [t \in AdapterThreads |-> NoRequest]
    /\ request_frame = [t \in AdapterThreads |-> <<>>]
    /\ attempt = [t \in AdapterThreads |-> 0]
    /\ response_frame = [t \in AdapterThreads |-> <<>>]
    /\ pending_stats = [t \in AdapterThreads |-> <<>>]
    /\ loaded = [t \in AdapterThreads |-> 0]
    /\ after_stats = [t \in AdapterThreads |-> "idle"]
    /\ result = [t \in AdapterThreads |-> Pending]
    /\ calls_made = 0
    /\ attempt_log = [t \in AdapterThreads |-> <<>>]
    /\ stats_before = [t \in AdapterThreads |-> EmptyStats]

\* the device after construction, with the default configuration
Init ==
    /\ SchedulerInit
    /\ AdapterInit(3)
    /\ StorageInit(DefaultStorageConfig, <<>>, MaxDay, 0)
    /\ CodecInit(NoCodecCall)
    /\ CallerInit
    /\ RingInit(MaxBuffer)

\* the device after construction, for each max_retries
InitAdapter ==
    /\ SchedulerInit
    /\ \E retries \in RetryBudgets : AdapterInit(retries)
    /\ StorageInit(DefaultStorageConfig, <<>>, MaxDay, 0)
    /\ CodecInit(NoCodecCall)
    /\ CallerInit
    /\ RingInit(MaxBuffer)

\* a MemoryDataStorage after construction, for each capacity
InitMemory ==
    /\ SchedulerInit
    /\ AdapterInit(3)
    /\ \E limit \in 0..MaxCapacity :
          StorageInit([DefaultStorageConfig EXCEPT !.memory_retention_samples = limit],
                      <<>>, MaxDay, 0)
    /\ CodecInit(NoCodecCall)
    /\ CallerInit
    /\ RingInit(MaxBuffer)

\* a SQLiteDataStorage after construction on a new database file, on each
\* day and for each epoch of the steady clock
InitSQLite ==
    /\ SchedulerInit
    /\ AdapterInit(3)
    /\ \E now \in Days : \E epoch \in SteadyEpochs(now) :
          StorageInit(DefaultStorageConfig, <<>>, now, epoch)
    /\ CodecInit(NoCodecCall)
    /\ CallerInit
    /\ RingInit(MaxBuffer)

\* a HybridDataStorage after construction, for each configuration and
\* each database file
InitHybrid ==
    /\ SchedulerInit
    /\ AdapterInit(3)
    /\ \E config \in StorageConfigs : \E table \in ExistingTables :
          /\ config.data_retention_days = 0
          /\ StorageInit(config, table, MaxDay, 0)
    /\ CodecInit(NoCodecCall)
    /\ CallerInit
    /\ RingInit(MaxBuffer)

\* a HybridDataStorage whose cleanup task is about to be started
InitSweeper ==
    /\ SchedulerInit
    /\ AdapterInit(3)
    /\ \E config \in StorageConfigs : \E table \in ExistingTables :
       \E epoch \in SteadyEpochs(MaxDay) :
          /\ config.memory_retention_samples = 1
          /\ StorageInit(config, table, MaxDay, epoch)
    /\ CodecInit(NoCodecCall)
    /\ CallerInit
    /\ RingInit(MaxBuffer)

\* the codec before one of its functions is applied to one input
InitCodec ==
    /\ SchedulerInit
    /\ AdapterInit(3)
    /\ StorageInit(DefaultStorageConfig, <<>>, MaxDay, 0)
    /\ \E call \in CodecInputs : CodecInit(call)
    /\ CallerInit
    /\ RingInit(MaxBuffer)

(***************************************************************************)
(* Operations of the controlling thread.                                   *)
(***************************************************************************)
Goto(c, label) == cpc' = [cpc EXCEPT ![c] = label]

\* where a caller is once its call has returned: the controlling threads are
\* free for their next call, the device goes on in start/stopAcquisition
AfterCall(c) == IF c = "device" THEN "returned" ELSE "idle"

\* startPolling(): std::lock_guard<std::mutex> lock(buffer_mutex_)
StartPolling_Lock(c) ==
    /\ cpc[c] = "idle"
    /\ buffer_mutex_ = "free"
    /\ buffer_mutex_' = c
    /\ Goto(c, "start_check")
    /\ UNCHANGED <<flag_vars, config_vars, sample_buffer_, statistics_,
                   callbacks_mutex_, worker_vars, history_vars>>
    /\ stop_returned' = FALSE
    /\ UNCHANGED beside_scheduler

\* a start that does not look at polling_active_
StartPolling_CheckIgnored(c) ==
    /\ cpc[c] = "start_check"
    /\ Goto(c, "start_clear")
    /\ UNCHANGED <<flag_vars, config_vars, sample_buffer_, statistics_, buffer_mutex_,
                   callbacks_mutex_, worker_vars, history_vars>>
    /\ UNCHANGED stop_returned
    /\ UNCHANGED beside_scheduler

\* if (polling_active_.load()) { LOG_WARN(...); return; }
StartPolling_Check(c) ==
    /\ cpc[c] = "start_check"
    /\ IF polling_active_
          THEN /\ buffer_mutex_' = "free"
               /\ Goto(c, AfterCall(c))
          ELSE /\ buffer_mutex_' = buffer_mutex_
               /\ Goto(c, "start_clear")
    /\ UNCHANGED <<flag_vars, config_vars, sample_buffer_, statistics_,
                   callbacks_mutex_, worker_vars, history_vars>>
    /\ UNCHANGED stop_returned
    /\ UNCHANGED beside_scheduler

\* stop_requested_ = false
StartPolling_ClearStop(c) ==
    /\ cpc[c] = "start_clear"
    /\ stop_requested_' = FALSE
    /\ Goto(c, "start_set")
    /\ UNCHANGED <<polling_active_, polling_thread_, config_vars, sample_buffer_,
                   statistics_, buffer_mutex_, callbacks_mutex_, worker_vars, history_vars>>
    /\ UNCHANGED stop_returned
    /\ UNCHANGED beside_scheduler

\* polling_active_ = true
StartPolling_SetActive(c) ==
    /\ cpc[c] = "start_set"
    /\ polling_active_' = TRUE
    /\ Goto(c, "start_spawn")
    /\ UNCHANGED <<stop_requested_, polling_thread_, config_vars, sample_buffer_,
                   statistics_, buffer_mutex_, callbacks_mutex_, worker_vars, history_vars>>
    /\ UNCHANGED stop_returned
    /\ UNCHANGED beside_scheduler

\* polling_thread_ = std::make_unique<std::thread>(&pollingLoop, this); the
\* lock_guard is released on return.  With one controlling thread the handle
\* that is replaced is never joinable here.  Replacing a handle that is
\* joinable destroys a joinable std::thread: std::terminate() ends the
\* process and no thread takes another step.
StartPolling_Spawn(c) ==
    /\ cpc[c] = "start_spawn"
    /\ IF polling_thread_ = "joinable"
          THEN /\ polling_thread_' = "terminate"
               /\ wpc' = "aborted"
               /\ cpc' = [d \in DOMAIN cpc |-> "aborted"]
          ELSE /\ polling_thread_' = "joinable"
               /\ wpc' = "loop"
               /\ Goto(c, AfterCall(c))
    /\ buffer_mutex_' = "free"
    /\ UNCHANGED <<polling_active_, stop_requested_, config_vars, sample_buffer_,
                   statistics_, callbacks_mutex_, addresses_to_read, read_idx, samples,
                   store_idx, cb_idx, sleep_left, history_vars>>
    /\ UNCHANGED stop_returned
    /\ UNCHANGED beside_scheduler

\* stopPolling(): stop_requested_ = true
StopPolling_Request(c) ==
    /\ cpc[c] = "idle"
    /\ stop_requested_' = TRUE
    /\ Goto(c, "stop_clear")
    /\ UNCHANGED <<polling_active_, polling_thread_, config_vars, sample_buffer_,
                   statistics_, buffer_mutex_, callbacks_mutex_, worker_vars, history_vars>>
    /\ UNCHANGED stop_returned
    /\ UNCHANGED beside_scheduler

\* polling_active_ = false
StopPolling_ClearActive(c) ==
    /\ cpc[c] = "stop_clear"
    /\ polling_active_' = FALSE
    /\ Goto(c, "stop_join")
    /\ UNCHANGED <<stop_requested_, polling_thread_, config_vars, sample_buffer_,
                   statistics_, buffer_mutex_, callbacks_mutex_, worker_vars, history_vars>>
    /\ UNCHANGED stop_returned
    /\ UNCHANGED beside_scheduler

\* a stop that returns without joining the worker
StopPolling_Detach(c) ==
    /\ cpc[c] = "stop_join"
    /\ Goto(c, AfterCall(c))
    /\ UNCHANGED <<flag_vars, config_vars, sample_buffer_, statistics_, buffer_mutex_,
                   callbacks_mutex_, worker_vars, history_vars>>
    /\ stop_returned' = TRUE
    /\ UNCHANGED beside_scheduler

\* if (polling_thread_ && polling_thread_->joinable()) polling_thread_->join();
\* join() returns once pollingLoop() has returned
StopPolling_Join(c) ==
    /\ cpc[c] = "stop_join"
    /\ IF polling_thread_ = "joinable"
          THEN /\ wpc = "done"
               /\ polling_thread_' = "joined"
          ELSE /\ polling_thread_' = polling_thread_
    /\ Goto(c, AfterCall(c))
    /\ UNCHANGED <<polling_active_, stop_requested_, config_vars, sample_buffer_,
                   statistics_, buffer_mutex_, callbacks_mutex_, worker_vars, history_vars>>
    /\ stop_returned' = TRUE
    /\ UNCHANGED beside_scheduler

\* setMinimumRegisters(registers)
SetMinimumRegisters(c, registers) ==
    /\ cpc[c] = "idle"
    /\ minimum_registers_' = registers
    /\ UNCHANGED <<flag_vars, register_configs_, sample_callbacks_, error_callbacks_,
                   sample_buffer_, statistics_, buffer_mutex_, callbacks_mutex_, cpc,
                   worker_vars, history_vars>>
    /\ UNCHANGED stop_returned
    /\ UNCHANGED beside_scheduler

\* configureRegisters(register_configs), under buffer_mutex_
ConfigureRegisters(c, register_configs) ==
    /\ cpc[c] = "idle"
    /\ buffer_mutex_ = "free"
    /\ register_configs_' = register_configs
    /\ UNCHANGED <<flag_vars, minimum_registers_, sample_callbacks_, error_callbacks_,
                   sample_buffer_, statistics_, buffer_mutex_, callbacks_mutex_, cpc,
                   worker_vars, history_vars>>
    /\ UNCHANGED stop_returned
    /\ UNCHANGED beside_scheduler

\* setMinimumRegisters(registers), statement by statement: the copy
\* assignment of minimum_registers_ begins; no lock is taken
SetMinimumRegisters_Begin(c) ==
    /\ cpc[c] = "idle"
    /\ Goto(c, "set_min")
    /\ UNCHANGED <<flag_vars, config_vars, sample_buffer_, statistics_, buffer_mutex_,
                   callbacks_mutex_, worker_vars, history_vars>>
    /\ UNCHANGED stop_returned
    /\ UNCHANGED beside_scheduler

\* ... and is complete; setMinimumRegisters returns
SetMinimumRegisters_End(c, registers) ==
    /\ cpc[c] = "set_min"
    /\ minimum_registers_' = registers
    /\ Goto(c, "idle")
    /\ UNCHANGED <<flag_vars, register_configs_, sample_callbacks_, error_callbacks_,
                   sample_buffer_, statistics_, buffer_mutex_, callbacks_mutex_,
                   worker_vars, history_vars>>
    /\ UNCHANGED stop_returned
    /\ UNCHANGED beside_scheduler

\* configureRegisters(register_configs), statement by statement:
\* std::lock_guard<std::mutex> lock(buffer_mutex_)
ConfigureRegisters_Lock(c) ==
    /\ cpc[c] = "idle"
    /\ buffer_mutex_ = "free"
    /\ buffer_mutex_' = c
    /\ Goto(c, "configure")
    /\ UNCHANGED <<flag_vars, config_vars, sample_buffer_, statistics_,
                   callbacks_mutex_, worker_vars, history_vars>>
    /\ UNCHANGED stop_returned
    /\ UNCHANGED beside_scheduler

\* register_configs_ = register_configs; the lock_guard is released on return
ConfigureRegisters_Assign(c, register_configs) ==
    /\ cpc[c] = "configure"
    /\ register_configs_' = register_configs
    /\ buffer_mutex_' = "free"
    /\ Goto(c, "idle")
    /\ UNCHANGED <<flag_vars, minimum_registers_, sample_callbacks_, error_callbacks_,
                   sample_buffer_, statistics_, callbacks_mutex_, worker_vars,
                   history_vars>>
    /\ UNCHANGED stop_returned
    /\ UNCHANGED beside_scheduler

\* addSampleCallback(callback), under callbacks_mutex_
AddSampleCallback(c, callback) ==
    /\ cpc[c] = "idle"
    /\ callbacks_mutex_ = "free"
    /\ Len(sample_callbacks_) < MaxSubs
    /\ sample_callbacks_' = Append(sample_callbacks_, callback)
    /\ UNCHANGED <<flag_vars, register_configs_, minimum_registers_, error_callbacks_,
                   sample_buffer_, statistics_, buffer_mutex_, callbacks_mutex_, cpc,
                   worker_vars, history_vars>>
    /\ UNCHANGED stop_returned
    /\ UNCHANGED beside_scheduler

\* addErrorCallback(callback), under callbacks_mutex_
AddErrorCallback(c, callback) ==
    /\ cpc[c] = "idle"
    /\ callbacks_mutex_ = "free"
    /\ Len(error_callbacks_) < MaxSubs
    /\ error_callbacks_' = Append(error_callbacks_, callback)
    /\ UNCHANGED <<flag_vars, register_configs_, minimum_registers_, sample_callbacks_,
                   sample_buffer_, statistics_, buffer_mutex_, callbacks_mutex_, cpc,
                   worker_vars, history_vars>>
    /\ UNCHANGED stop_returned
    /\ UNCHANGED beside_scheduler

\* resetStatistics(), under stats_mutex_
ResetStatistics(c) ==
    /\ cpc[c] = "idle"
    /\ statistics_' = EmptyStatistics
    /\ UNCHANGED <<flag_vars, config_vars, sample_buffer_, buffer_mutex_,
                   callbacks_mutex_, cpc, worker_vars, history_vars>>
    /\ UNCHANGED stop_returned
    /\ UNCHANGED beside_scheduler

(***************************************************************************)
(* The polling worker: pollingLoop() and what it calls.                    *)
(***************************************************************************)
\* "Add minimum registers if not already included": std::find over the list
\* built so far, push_back when absent
RECURSIVE AddMinimumRegistersAll(_, _)
AddMinimumRegistersAll(addresses, registers) ==
    IF registers = <<>> THEN addresses
    ELSE AddMinimumRegistersAll(Append(addresses, Head(registers)), Tail(registers))

RECURSIVE AddMinimumRegisters(_, _)
AddMinimumRegisters(addresses, registers) ==
    IF registers = <<>> THEN addresses
    ELSE AddMinimumRegisters(
             IF Head(registers) \in Range(addresses)
                THEN addresses
                ELSE Append(addresses, Head(registers)),
             Tail(registers))

\* the result of readSingleRegister when no sample is produced
Nullptr == [register_address |-> -1]

\* readSingleRegister(address): a sample for a data response; nullptr for an
\* exception response, a response without data or a thrown exception (caught)
\* The sample is stamped with std::chrono::system_clock::now().
readSingleRegister(address, outcome) ==
    IF outcome = "data"
       THEN [register_address |-> address, timestamp |-> system_now]
       ELSE Nullptr

\* sample_buffer_.push_back(sample); while (size() > max_buffer_size_) pop_front()
RECURSIVE TrimFront(_)
TrimFront(buffer) ==
    IF Len(buffer) > max_buffer_size_ THEN TrimFront(Tail(buffer)) ELSE buffer

PushSample(buffer, sample) == TrimFront(Append(buffer, sample))

\* statistics that count a failed poll in total_polls only
UpdateStatisticsForgetful(stats, acquired) ==
    IF acquired
       THEN [stats EXCEPT !.total_polls = @ + 1, !.successful_polls = @ + 1]
       ELSE [stats EXCEPT !.total_polls = @ + 1, !.last_error = NoSamplesAcquired]

\* "Update statistics" block of performPollCycle, under stats_mutex_
UpdateStatistics(stats, acquired) ==
    IF acquired
       THEN [stats EXCEPT !.total_polls = @ + 1, !.successful_polls = @ + 1]
       ELSE [stats EXCEPT !.total_polls = @ + 1, !.failed_polls = @ + 1,
                          !.last_error = NoSamplesAcquired]

\* a loop that gives up after a cycle without samples
AfterPollCycleStrict(acquired) == IF acquired THEN "sleep" ELSE "done"

\* pollingLoop: after performPollCycle() (or its catch block) the worker sleeps
AfterPollCycle(acquired) == "sleep"

\* a callback loop without the try/catch: a raising subscriber ends the loop
AfterCallbackUncaught(kind, idx, count) == IF kind = "raises" THEN count + 1 ELSE idx + 1

\* storeSample: try { callback(sample); } catch (const std::exception&) { LOG_ERROR }
\* the loop goes on with the next subscriber either way
AfterCallback(kind, idx, count) == idx + 1

\* where performPollCycle goes once sample number idx - 1 is stored
AfterStore(idx, acquired) == IF idx > Len(acquired) THEN "stats" ELSE "store"

\* while (!stop_requested_.load()) { try { performPollCycle(); ...
PollingLoop_Check ==
    /\ wpc = "loop"
    /\ IF stop_requested_
          THEN /\ wpc' = "done"
               /\ UNCHANGED <<addresses_to_read, read_idx, samples, store_idx, cb_idx,
                              sleep_left, history_vars>>
          ELSE /\ statistics_.total_polls < MaxPolls
               /\ wpc' = "collect"
               /\ cycle_subs' = [sample |-> Len(sample_callbacks_),
                                  error |-> Len(error_callbacks_)]
               /\ UNCHANGED <<addresses_to_read, read_idx, samples, store_idx, cb_idx,
                              sleep_left, polled, read_failures, pushed, delivered,
                              error_notified, cycle_union, stop_at_read>>
    /\ UNCHANGED <<flag_vars, config_vars, sample_buffer_, statistics_, buffer_mutex_,
                   callbacks_mutex_, cpc>>
    /\ UNCHANGED stop_returned
    /\ UNCHANGED beside_scheduler

\* performPollCycle: "Collect all configured register addresses", under buffer_mutex_
PerformPollCycle_Collect ==
    /\ wpc = "collect"
    /\ buffer_mutex_ = "free"
    /\ addresses_to_read' = MapKeys(register_configs_)
    /\ cycle_union' = register_configs_
    /\ wpc' = "add_min"
    /\ UNCHANGED <<flag_vars, config_vars, sample_buffer_, statistics_, buffer_mutex_,
                   callbacks_mutex_, cpc, read_idx, samples, store_idx, cb_idx, sleep_left,
                   polled, read_failures, pushed, delivered, error_notified, cycle_subs,
                   stop_at_read>>
    /\ UNCHANGED stop_returned
    /\ UNCHANGED beside_scheduler

\* performPollCycle: "Add minimum registers if not already included"; with no
\* address to read the cycle goes straight to the statistics
PerformPollCycle_AddMinimum ==
    /\ wpc = "add_min"
    /\ \A c \in DOMAIN cpc : cpc[c] # "set_min"
    /\ addresses_to_read' = AddMinimumRegisters(addresses_to_read, minimum_registers_)
    /\ cycle_union' = cycle_union \cup Range(minimum_registers_)
    /\ wpc' = IF addresses_to_read' = <<>> THEN "stats" ELSE "read"
    /\ UNCHANGED <<flag_vars, config_vars, sample_buffer_, statistics_, buffer_mutex_,
                   callbacks_mutex_, cpc, read_idx, samples, store_idx, cb_idx, sleep_left,
                   polled, read_failures, pushed, delivered, error_notified, cycle_subs,
                   stop_at_read>>
    /\ UNCHANGED stop_returned
    /\ UNCHANGED beside_scheduler

\* the same loop run while setMinimumRegisters is assigning minimum_registers_
\* on another thread: neither side takes a lock, the read races with the
\* write, and the loop may see the old list, the new one or anything between
PerformPollCycle_AddMinimumRacing(seen) ==
    /\ wpc = "add_min"
    /\ \E c \in DOMAIN cpc : cpc[c] = "set_min"
    /\ addresses_to_read' = AddMinimumRegisters(addresses_to_read, seen)
    /\ cycle_union' = cycle_union \cup Range(seen)
    /\ wpc' = IF addresses_to_read' = <<>> THEN "stats" ELSE "read"
    /\ UNCHANGED <<flag_vars, config_vars, sample_buffer_, statistics_, buffer_mutex_,
                   callbacks_mutex_, cpc, read_idx, samples, store_idx, cb_idx, sleep_left,
                   polled, read_failures, pushed, delivered, error_notified, cycle_subs,
                   stop_at_read>>
    /\ UNCHANGED stop_returned
    /\ UNCHANGED beside_scheduler

\* readMultipleRegisters: one turn of "for (auto address : addresses)"; after
\* the last address performPollCycle stores the samples, or has none to store
ReadMultipleRegisters_Read(outcome) ==
    /\ wpc = "read"
    /\ read_idx <= Len(addresses_to_read)
    /\ LET address == addresses_to_read[read_idx]
           sample == readSingleRegister(address, outcome)
       IN /\ samples' = IF sample # Nullptr THEN Append(samples, sample) ELSE samples
          /\ read_failures' = IF sample # Nullptr THEN read_failures ELSE read_failures + 1
          /\ polled' = Append(polled, address)
          /\ stop_at_read' = stop_requested_
    /\ read_idx' = read_idx + 1
    /\ wpc' = IF read_idx' <= Len(addresses_to_read) THEN "read"
              ELSE AfterStore(1, samples')
    /\ UNCHANGED <<flag_vars, config_vars, sample_buffer_, statistics_, buffer_mutex_,
                   callbacks_mutex_, cpc, addresses_to_read, store_idx, cb_idx, sleep_left,
                   pushed, delivered, error_notified, cycle_union, cycle_subs>>
    /\ UNCHANGED stop_returned
    /\ UNCHANGED beside_scheduler

\* storeSample: "Store in buffer", under buffer_mutex_
StoreSample_Push ==
    /\ wpc = "store"
    /\ buffer_mutex_ = "free"
    /\ sample_buffer_' = PushSample(sample_buffer_, samples[store_idx])
    /\ pushed' = Append(pushed, samples[store_idx].register_address)
    /\ wpc' = "cb_lock"
    /\ UNCHANGED <<flag_vars, config_vars, statistics_, buffer_mutex_, callbacks_mutex_,
                   cpc, addresses_to_read, read_idx, samples, store_idx, cb_idx, sleep_left,
                   polled, read_failures, delivered, error_notified, cycle_union,
                   cycle_subs, stop_at_read>>
    /\ UNCHANGED stop_returned
    /\ UNCHANGED beside_scheduler

\* storeSample: std::lock_guard<std::mutex> lock(callbacks_mutex_)
StoreSample_LockCallbacks ==
    /\ wpc = "cb_lock"
    /\ callbacks_mutex_ = "free"
    /\ callbacks_mutex_' = "worker"
    /\ cb_idx' = 1
    /\ wpc' = "cb"
    /\ UNCHANGED <<flag_vars, config_vars, sample_buffer_, statistics_, buffer_mutex_,
                   cpc, addresses_to_read, read_idx, samples, store_idx, sleep_left,
                   history_vars>>
    /\ UNCHANGED stop_returned
    /\ UNCHANGED beside_scheduler

\* storeSample: one turn of "for (const auto& callback : sample_callbacks_)"
StoreSample_Invoke ==
    /\ wpc = "cb"
    /\ cb_idx <= Len(sample_callbacks_)
    /\ sample_callbacks_[cb_idx] # "subscribes"
    /\ delivered' = Append(delivered, <<cb_idx, samples[store_idx].register_address>>)
    /\ cb_idx' = AfterCallback(sample_callbacks_[cb_idx], cb_idx, Len(sample_callbacks_))
    /\ UNCHANGED <<flag_vars, config_vars, sample_buffer_, statistics_, buffer_mutex_,
                   callbacks_mutex_, cpc, wpc, addresses_to_read, read_idx, samples,
                   store_idx, sleep_left, polled, read_failures, pushed, error_notified,
                   cycle_union, cycle_subs, stop_at_read>>
    /\ UNCHANGED stop_returned
    /\ UNCHANGED beside_scheduler

\* storeSample: the turn of a subscriber that calls addSampleCallback.  The
\* callback runs on the worker, inside the lock_guard of storeSample, and
\* addSampleCallback locks callbacks_mutex_ again.  Locking a std::mutex the
\* thread already owns is undefined: the worker blocks for ever, or lock()
\* throws std::system_error (resource_deadlock_would_occur), which the
\* try/catch around the callback logs; no subscriber is added either way.
StoreSample_InvokeSubscribing(outcome) ==
    /\ wpc = "cb"
    /\ cb_idx <= Len(sample_callbacks_)
    /\ sample_callbacks_[cb_idx] = "subscribes"
    /\ callbacks_mutex_ = "worker"
    /\ delivered' = Append(delivered, <<cb_idx, samples[store_idx].register_address>>)
    /\ IF outcome = "blocks"
          THEN /\ wpc' = "cb_blocked"
               /\ cb_idx' = cb_idx
          ELSE /\ wpc' = wpc
               /\ cb_idx' = cb_idx + 1
    /\ UNCHANGED <<flag_vars, config_vars, sample_buffer_, statistics_, buffer_mutex_,
                   callbacks_mutex_, cpc, addresses_to_read, read_idx, samples,
                   store_idx, sleep_left, polled, read_failures, pushed, error_notified,
                   cycle_union, cycle_subs, stop_at_read>>
    /\ UNCHANGED stop_returned
    /\ UNCHANGED beside_scheduler

\* storeSample returns (the lock_guard releases callbacks_mutex_); performPollCycle
\* takes the next sample
StoreSample_Return ==
    /\ wpc = "cb"
    /\ cb_idx > Len(sample_callbacks_)
    /\ callbacks_mutex_' = "free"
    /\ store_idx' = store_idx + 1
    /\ wpc' = AfterStore(store_idx', samples)
    /\ UNCHANGED <<flag_vars, config_vars, sample_buffer_, statistics_, buffer_mutex_,
                   cpc, addresses_to_read, read_idx, samples, cb_idx, sleep_left,
                   history_vars>>
    /\ UNCHANGED stop_returned
    /\ UNCHANGED beside_scheduler

\* performPollCycle: "Update statistics"; back in pollingLoop the worker calls
\* std::this_thread::sleep_for(config_.polling_interval)
PerformPollCycle_UpdateStatistics ==
    /\ wpc = "stats"
    /\ statistics_' = UpdateStatistics(statistics_, samples # <<>>)
    /\ wpc' = AfterPollCycle(samples # <<>>)
    /\ sleep_left' = PollingTicks
    /\ addresses_to_read' = <<>>
    /\ read_idx' = 1
    /\ samples' = <<>>
    /\ store_idx' = 1
    /\ cb_idx' = 1
    /\ polled' = <<>>
    /\ read_failures' = 0
    /\ pushed' = <<>>
    /\ delivered' = <<>>
    /\ error_notified' = 0
    /\ cycle_union' = {}
    /\ cycle_subs' = NoSubscribers
    /\ stop_at_read' = FALSE
    /\ UNCHANGED <<flag_vars, config_vars, sample_buffer_, buffer_mutex_,
                   callbacks_mutex_, cpc>>
    /\ UNCHANGED stop_returned
    /\ UNCHANGED beside_scheduler

\* sleep_for: one tick of the interval passes
PollingLoop_SleepTick ==
    /\ wpc = "sleep"
    /\ sleep_left > 0
    /\ sleep_left' = sleep_left - 1
    /\ UNCHANGED <<flag_vars, config_vars, sample_buffer_, statistics_, buffer_mutex_,
                   callbacks_mutex_, cpc, wpc, addresses_to_read, read_idx, samples,
                   store_idx, cb_idx, history_vars>>
    /\ UNCHANGED stop_returned
    /\ UNCHANGED beside_scheduler

\* sleep_for returns once the whole interval has passed
PollingLoop_Wake ==
    /\ wpc = "sleep"
    /\ sleep_left = 0
    /\ wpc' = "loop"
    /\ UNCHANGED <<flag_vars, config_vars, sample_buffer_, statistics_, buffer_mutex_,
                   callbacks_mutex_, cpc, addresses_to_read, read_idx, samples, store_idx,
                   cb_idx, sleep_left, history_vars>>
    /\ UNCHANGED stop_returned
    /\ UNCHANGED beside_scheduler

\* the steps of the worker while sample_callbacks_ is empty: the loop over the
\* subscribers in storeSample has no iteration
WorkerNoSubscribers ==
    \/ PollingLoop_Check
    \/ PerformPollCycle_Collect
    \/ PerformPollCycle_AddMinimum
    \/ \E outcome \in ReadOutcomes : ReadMultipleRegisters_Read(outcome)
    \/ StoreSample_Push
    \/ StoreSample_LockCallbacks
    \/ StoreSample_Return
    \/ PerformPollCycle_UpdateStatistics
    \/ PollingLoop_SleepTick
    \/ PollingLoop_Wake

Worker ==
    \/ WorkerNoSubscribers
    \/ StoreSample_Invoke

(***************************************************************************)
(* Spec: the life cycle.  The controller starts and stops polling, adds    *)
(* sample subscribers and resets the statistics; the catalogue and the     *)
(* minimum registers stay as the constructor left them.                    *)
(***************************************************************************)
Next ==
    \/ \E c \in Clients : StartPolling_Lock(c)
    \/ \E c \in Clients : StartPolling_Check(c)
    \/ \E c \in Clients : StartPolling_ClearStop(c)
    \/ \E c \in Clients : StartPolling_SetActive(c)
    \/ \E c \in Clients : StartPolling_Spawn(c)
    \/ \E c \in Clients : StopPolling_Request(c)
    \/ \E c \in Clients : StopPolling_ClearActive(c)
    \/ \E c \in Clients : StopPolling_Join(c)
    \/ \E c \in Clients, kind \in CallbackKinds : AddSampleCallback(c, kind)
    \/ \E c \in Clients : ResetStatistics(c)
    \/ Worker

Spec == Init /\ [][Next]_vars

\* the operating system schedules the worker thread and time passes: a step
\* of the worker that stays possible is eventually taken
SpecFair == Spec /\ WF_vars(Worker)

(***************************************************************************)
(* SpecCycle: the poll cycle.  The controller configures the catalogue,    *)
(* the minimum registers and the sample subscribers, before or while the   *)
(* worker polls, and starts polling; polling is not stopped.               *)
(***************************************************************************)
NextCycle ==
    \/ \E c \in Clients : StartPolling_Lock(c)
    \/ \E c \in Clients : StartPolling_Check(c)
    \/ \E c \in Clients : StartPolling_ClearStop(c)
    \/ \E c \in Clients : StartPolling_SetActive(c)
    \/ \E c \in Clients : StartPolling_Spawn(c)
    \/ \E c \in Clients, registers \in MinimumLists : SetMinimumRegisters(c, registers)
    \/ \E c \in Clients, catalogue \in Catalogues : ConfigureRegisters(c, catalogue)
    \/ \E c \in Clients, kind \in CallbackKinds : AddSampleCallback(c, kind)
    \/ Worker

SpecCycle == Init /\ [][NextCycle]_vars

(***************************************************************************)
(* SpecErrors: the error bus.  The controller adds sample and error        *)
(* subscribers, before or while the worker polls, and starts polling; the  *)
(* reads of a cycle succeed or fail.                                       *)
(***************************************************************************)
NextErrors ==
    \/ \E c \in Clients : StartPolling_Lock(c)
    \/ \E c \in Clients : StartPolling_Check(c)
    \/ \E c \in Clients : StartPolling_ClearStop(c)
    \/ \E c \in Clients : StartPolling_SetActive(c)
    \/ \E c \in Clients : StartPolling_Spawn(c)
    \/ \E c \in Clients, kind \in CallbackKinds : AddSampleCallback(c, kind)
    \/ \E c \in Clients, kind \in ErrorCallbackKinds : AddErrorCallback(c, kind)
    \/ Worker

SpecErrors == Init /\ [][NextErrors]_vars

(***************************************************************************)
(* The protocol adapter: readRegisters, writeRegister, sendRequest and     *)
(* updateStats, run by thread t.                                            *)
(***************************************************************************)
\* a validation that lets a count of 0 through
ValidRegisterCountAcceptsZero(num_registers) == num_registers <= MaxRegistersPerRead

\* if (num_registers == 0 || num_registers > 125) throw ModbusException(...)
ValidRegisterCount(num_registers) ==
    ~(num_registers = 0 \/ num_registers > MaxRegistersPerRead)

\* a retry loop that makes one attempt too many
RetriesLeftInclusive(attempts, retries) == attempts <= retries

\* while (attempt < modbus_config_.max_retries)
RetriesLeft(attempts, retries) == attempts < retries

\* a retry loop that accounts for every failed attempt, the first included
CountsAsRetryAlways(attempts) == TRUE

\* if (attempt > 0) updateStats(false, Duration(0), true)
CountsAsRetry(attempts) == attempts > 0

\* an updateStats whose retry accounting forgets failed_requests
StatCountersRetryOnly(success, was_retry) ==
    IF was_retry
       THEN <<"total_requests", "retry_attempts">>
       ELSE <<"total_requests",
              IF success THEN "successful_requests" ELSE "failed_requests">>

\* updateStats: the counters it increments, in the order of the code
StatCounters(success, was_retry) ==
    <<"total_requests", IF success THEN "successful_requests" ELSE "failed_requests">>
    \o (IF was_retry THEN <<"retry_attempts">> ELSE <<>>)

\* one attempt of sendRequest ends in an HttpException: post threw, the
\* status is not 2xx, the body is not JSON, or it has no non-empty "frame"
SendFails(http) ==
    \/ http.failed
    \/ ~isSuccess(http)
    \/ ~http.body.valid_json
    \/ http.body.frame = <<>>

\* history: what one post produced
AttemptKind(http) ==
    IF http.failed THEN "no response"
    ELSE IF ~isSuccess(http) THEN "non-2xx"
    ELSE IF SendFails(http) THEN "no frame"
    ELSE "frame"

\* an adapter that sends the request again after an exception response
RetriesExceptionResponse(outcome) == IsThrow(outcome) /\ "error_code" \in DOMAIN outcome

\* an adapter that sends the request again after a frame the codec rejects
RetriesInvalidFrame(outcome) == IsThrow(outcome) /\ "error_code" \notin DOMAIN outcome

\* the catch clauses of readRegisters / writeRegister account for the
\* failure and rethrow; none of them calls sendRequest again
RetriesResponse(outcome) == FALSE

\* readRegisters after sendRequest returned frame: what it returns or throws
ReadOutcome(req, frame) ==
    LET response == ParsedResponses[frame] IN
    IF IsThrow(response) THEN response
    ELSE IF response.is_error THEN ThrowsCode(response.error_code)
    ELSE IF IsThrow(parseRegisterValues(response.data))
       THEN parseRegisterValues(response.data)
    ELSE IF Len(parseRegisterValues(response.data).values) # req.num_registers
       THEN Throws("ModbusException", "Register count mismatch")
    ELSE parseRegisterValues(response.data)

\* writeRegister after sendRequest returned frame: what it returns or throws
WriteOutcome(req, frame) ==
    LET response == ParsedResponses[frame] IN
    IF IsThrow(response) THEN response
    ELSE IF response.is_error THEN ThrowsCode(response.error_code)
    ELSE IF /\ response.function_code = WRITE_SINGLE_REGISTER
            /\ Len(response.data) >= 4
            /\ \/ response.data[1] * 256 + response.data[2] # req.register_address
               \/ response.data[3] * 256 + response.data[4] # req.value
       THEN Throws("ModbusException", "Write verification failed")
    ELSE [ok |-> TRUE]

\* readRegisters(start_address, num_registers) up to the call of sendRequest
ReadRegisters_Call(t, req) ==
    /\ apc[t] = "idle"
    /\ calls_made < MaxCalls
    /\ calls_made' = calls_made + 1
    /\ request' = [request EXCEPT ![t] = req]
    /\ stats_before' = [stats_before EXCEPT ![t] = stats_]
    /\ attempt' = [attempt EXCEPT ![t] = 0]
    /\ IF ValidRegisterCount(req.num_registers)
          THEN /\ request_frame' = [request_frame EXCEPT ![t] =
                      createReadFrame(SlaveAddress, req.start_address, req.num_registers)]
               /\ apc' = [apc EXCEPT ![t] = "send"]
               /\ UNCHANGED result
          ELSE /\ result' = [result EXCEPT ![t] =
                      Throws("ModbusException", "Invalid number of registers")]
               /\ apc' = [apc EXCEPT ![t] = "returned"]
               /\ UNCHANGED request_frame
    /\ UNCHANGED <<max_retries, stats_, response_frame, pending_stats, loaded, after_stats,
                   attempt_log>>
    /\ UNCHANGED beside_adapter

\* writeRegister(register_address, value) up to the call of sendRequest
WriteRegister_Call(t, req) ==
    /\ apc[t] = "idle"
    /\ calls_made < MaxCalls
    /\ calls_made' = calls_made + 1
    /\ request' = [request EXCEPT ![t] = req]
    /\ stats_before' = [stats_before EXCEPT ![t] = stats_]
    /\ attempt' = [attempt EXCEPT ![t] = 0]
    /\ request_frame' = [request_frame EXCEPT ![t] =
           createWriteFrame(SlaveAddress, req.register_address, req.value)]
    /\ apc' = [apc EXCEPT ![t] = "send"]
    /\ UNCHANGED <<max_retries, stats_, response_frame, pending_stats, loaded, after_stats,
                   result, attempt_log>>
    /\ UNCHANGED beside_adapter

\* sendRequest: one turn of the while loop, the transport answering http
SendRequest_Post(t, http) ==
    /\ apc[t] = "send"
    /\ RetriesLeft(attempt[t], max_retries)
    /\ attempt_log' = [attempt_log EXCEPT ![t] = Append(@, AttemptKind(http))]
    /\ IF SendFails(http)
          THEN /\ attempt' = [attempt EXCEPT ![t] = @ + 1]
               /\ IF CountsAsRetry(attempt[t])
                     THEN /\ pending_stats' = [pending_stats EXCEPT ![t] =
                                 StatCounters(FALSE, TRUE)]
                          /\ after_stats' = [after_stats EXCEPT ![t] = "send"]
                          /\ apc' = [apc EXCEPT ![t] = "stats_load"]
                     ELSE UNCHANGED <<pending_stats, after_stats, apc>>
               /\ UNCHANGED response_frame
          ELSE /\ response_frame' = [response_frame EXCEPT ![t] = http.body.frame]
               /\ apc' = [apc EXCEPT ![t] = "parse"]
               /\ UNCHANGED <<attempt, pending_stats, after_stats>>
    /\ UNCHANGED <<max_retries, stats_, request, request_frame, loaded, result, calls_made,
                   stats_before>>
    /\ UNCHANGED beside_adapter

\* sendRequest: the loop is left, throw ModbusException("Request failed after
\* ... attempts"); the caller's catch (const ModbusException&) accounts for
\* the failure and rethrows
SendRequest_Exhausted(t) ==
    /\ apc[t] = "send"
    /\ ~RetriesLeft(attempt[t], max_retries)
    /\ result' = [result EXCEPT ![t] = Throws("ModbusException", "Request failed")]
    /\ pending_stats' = [pending_stats EXCEPT ![t] = StatCounters(FALSE, FALSE)]
    /\ after_stats' = [after_stats EXCEPT ![t] = "returned"]
    /\ apc' = [apc EXCEPT ![t] = "stats_load"]
    /\ UNCHANGED <<max_retries, stats_, request, request_frame, attempt, response_frame,
                   loaded, calls_made, attempt_log, stats_before>>
    /\ UNCHANGED beside_adapter

\* what readRegisters / writeRegister do with the outcome of the response:
\* updateStats(true, ...) and return, or updateStats(false, ...) and throw
Conclude(t, outcome) ==
    IF RetriesResponse(outcome)
       THEN /\ attempt' = [attempt EXCEPT ![t] = @ + 1]
            /\ apc' = [apc EXCEPT ![t] = "send"]
            /\ UNCHANGED <<result, pending_stats, after_stats>>
       ELSE /\ result' = [result EXCEPT ![t] = outcome]
            /\ pending_stats' = [pending_stats EXCEPT ![t] =
                   StatCounters(~IsThrow(outcome), FALSE)]
            /\ after_stats' = [after_stats EXCEPT ![t] = "returned"]
            /\ apc' = [apc EXCEPT ![t] = "stats_load"]
            /\ UNCHANGED attempt

\* readRegisters: parseResponse, the is_error check, parseRegisterValues and
\* the count check
ReadRegisters_Parse(t) ==
    /\ apc[t] = "parse"
    /\ request[t].op = "read"
    /\ Conclude(t, ReadOutcome(request[t], response_frame[t]))
    /\ UNCHANGED <<max_retries, stats_, request, request_frame, response_frame, loaded,
                   calls_made, attempt_log, stats_before>>
    /\ UNCHANGED beside_adapter

\* writeRegister: parseResponse, the is_error check and the echo check
WriteRegister_Verify(t) ==
    /\ apc[t] = "parse"
    /\ request[t].op = "write"
    /\ Conclude(t, WriteOutcome(request[t], response_frame[t]))
    /\ UNCHANGED <<max_retries, stats_, request, request_frame, response_frame, loaded,
                   calls_made, attempt_log, stats_before>>
    /\ UNCHANGED beside_adapter

\* updateStats: counter++ reads the counter ...
UpdateStats_Load(t) ==
    /\ apc[t] = "stats_load"
    /\ loaded' = [loaded EXCEPT ![t] = stats_[Head(pending_stats[t])]]
    /\ apc' = [apc EXCEPT ![t] = "stats_store"]
    /\ UNCHANGED <<max_retries, stats_, request, request_frame, attempt, response_frame,
                   pending_stats, after_stats, result, calls_made, attempt_log, stats_before>>
    /\ UNCHANGED beside_adapter

\* ... and writes it back, one larger; stats_ is guarded by no mutex
UpdateStats_Store(t) ==
    /\ apc[t] = "stats_store"
    /\ stats_' = [stats_ EXCEPT ![Head(pending_stats[t])] = loaded[t] + 1]
    /\ pending_stats' = [pending_stats EXCEPT ![t] = Tail(@)]
    /\ apc' = [apc EXCEPT ![t] =
           IF Tail(pending_stats[t]) = <<>> THEN after_stats[t] ELSE "stats_load"]
    /\ UNCHANGED <<max_retries, request, request_frame, attempt, response_frame, loaded,
                   after_stats, result, calls_made, attempt_log, stats_before>>
    /\ UNCHANGED beside_adapter

\* the call is over: the caller has its values or its exception
Adapter_Return(t) ==
    /\ apc[t] = "returned"
    /\ apc' = [apc EXCEPT ![t] = "idle"]
    /\ request' = [request EXCEPT ![t] = NoRequest]
    /\ request_frame' = [request_frame EXCEPT ![t] = <<>>]
    /\ attempt' = [attempt EXCEPT ![t] = 0]
    /\ response_frame' = [response_frame EXCEPT ![t] = <<>>]
    /\ loaded' = [loaded EXCEPT ![t] = 0]
    /\ after_stats' = [after_stats EXCEPT ![t] = "idle"]
    /\ result' = [result EXCEPT ![t] = Pending]
    /\ attempt_log' = [attempt_log EXCEPT ![t] = <<>>]
    /\ stats_before' = [stats_before EXCEPT ![t] = EmptyStats]
    /\ UNCHANGED <<max_retries, stats_, pending_stats, calls_made>>
    /\ UNCHANGED beside_adapter

\* ProtocolAdapter::resetStatistics(): stats_ = CommunicationStats{}
Adapter_ResetStatistics(t) ==
    /\ apc[t] = "idle"
    /\ stats_ # EmptyStats
    /\ stats_' = EmptyStats
    /\ UNCHANGED <<max_retries, apc, request, request_frame, attempt, response_frame,
                   pending_stats, loaded, after_stats, result, calls_made, attempt_log,
                   stats_before>>
    /\ UNCHANGED beside_adapter

(***************************************************************************)
(* SpecAdapter: one thread calls the adapter; every request of the model,  *)
(* every answer of the transport, for each max_retries.                    *)
(***************************************************************************)
Callers == {"t1"}

NextAdapter ==
    \/ \E t \in Callers, req \in ReadRequests : ReadRegisters_Call(t, req)
    \/ \E t \in Callers, req \in WriteRequests : WriteRegister_Call(t, req)
    \/ \E t \in Callers, http \in HttpOutcomes : SendRequest_Post(t, http)
    \/ \E t \in Callers : SendRequest_Exhausted(t)
    \/ \E t \in Callers : ReadRegisters_Parse(t)
    \/ \E t \in Callers : WriteRegister_Verify(t)
    \/ \E t \in Callers : UpdateStats_Load(t)
    \/ \E t \in Callers : UpdateStats_Store(t)
    \/ \E t \in Callers : Adapter_Return(t)
    \/ \E t \in Callers : Adapter_ResetStatistics(t)

SpecAdapter == InitAdapter /\ [][NextAdapter]_vars

(***************************************************************************)
(* SpecThreads: two threads read one register through the same adapter.    *)
(***************************************************************************)
ThreadReadRequests == {req \in ReadRequests : req.num_registers = 1}

NextThreads ==
    \/ \E t \in AdapterThreads, req \in ThreadReadRequests : ReadRegisters_Call(t, req)
    \/ \E t \in AdapterThreads, http \in ThreadHttpOutcomes : SendRequest_Post(t, http)
    \/ \E t \in AdapterThreads : SendRequest_Exhausted(t)
    \/ \E t \in AdapterThreads : ReadRegisters_Parse(t)
    \/ \E t \in AdapterThreads : UpdateStats_Load(t)
    \/ \E t \in AdapterThreads : UpdateStats_Store(t)
    \/ \E t \in AdapterThreads : Adapter_Return(t)

SpecThreads == InitAdapter /\ [][NextThreads]_vars

(***************************************************************************)
(* Storage: the operations, one action each.                               *)
(***************************************************************************)
clock_vars == <<system_now, steady_epoch>>
sweeper_vars == <<cleanup_active_, cleanup_thread_, spc>>

\* the samples of store_log whose deque the operation left as it was
StillStored(log, before, after) ==
    SelectSeq(log, LAMBDA sample :
                      after[sample.register_address] = before[sample.register_address])

\* MemoryDataStorage::storeSample(sample)
Memory_StoreSample(sample) ==
    /\ Len(store_log) < MaxStores
    /\ samples_by_register_' =
          Memory_storeSample(samples_by_register_, config_.memory_retention_samples, sample)
    /\ store_log' = Append(store_log, sample)
    /\ storage_op' = [op |-> "storeSample", sample |-> sample]
    /\ storage_result' = <<>>
    /\ UNCHANGED <<config_, db_samples, clock_vars, sweeper_vars>>
    /\ UNCHANGED beside_storage

\* MemoryDataStorage::storeSamples(samples)
Memory_StoreSamples(batch) ==
    /\ Len(store_log) + Len(batch) <= MaxStores
    /\ samples_by_register_' =
          Memory_storeSamples(samples_by_register_, config_.memory_retention_samples, batch)
    /\ store_log' = store_log \o batch
    /\ storage_op' = [op |-> "storeSamples", samples |-> batch]
    /\ storage_result' = <<>>
    /\ UNCHANGED <<config_, db_samples, clock_vars, sweeper_vars>>
    /\ UNCHANGED beside_storage

\* MemoryDataStorage::clearSamples(register_address, clear_all)
Memory_ClearSamples(register_address, clear_all) ==
    /\ samples_by_register_' =
          Memory_clearSamples(samples_by_register_, register_address, clear_all)
    /\ store_log' = StillStored(store_log, samples_by_register_, samples_by_register_')
    /\ storage_op' = [op |-> "clearSamples", register_address |-> register_address,
                      clear_all |-> clear_all]
    /\ storage_result' = <<>>
    /\ UNCHANGED <<config_, db_samples, clock_vars, sweeper_vars>>
    /\ UNCHANGED beside_storage

NextMemory ==
    \/ \E sample \in StoredSamples : Memory_StoreSample(sample)
    \/ \E batch \in Batches : Memory_StoreSamples(batch)
    \/ \E register_address \in Addresses, clear_all \in BOOLEAN :
          Memory_ClearSamples(register_address, clear_all)

SpecMemory == InitMemory /\ [][NextMemory]_vars

\* SQLiteDataStorage::storeSample(sample)
SQLite_StoreSample(sample) ==
    /\ Len(store_log) < MaxStores
    /\ db_samples' = SQLite_storeSample(db_samples, sample)
    /\ store_log' = Append(store_log, sample)
    /\ storage_op' = [op |-> "storeSample", sample |-> sample]
    /\ storage_result' = <<>>
    /\ UNCHANGED <<config_, samples_by_register_, clock_vars, sweeper_vars>>
    /\ UNCHANGED beside_storage

\* SQLiteDataStorage::getSamples(register_address, count)
SQLite_GetSamples(register_address, count) ==
    /\ \E rows \in SQLite_getSamples(db_samples, register_address, count) :
          storage_result' \in SamplesOf(rows)
    /\ storage_op' = [op |-> "getSamples", register_address |-> register_address,
                      count |-> count]
    /\ UNCHANGED <<config_, samples_by_register_, db_samples, store_log, clock_vars,
                   sweeper_vars>>
    /\ UNCHANGED beside_storage

\* SQLiteDataStorage::cleanupOldData(retention_days)
SQLite_CleanupOldData(retention_days) ==
    /\ db_samples' =
          SQLite_cleanupOldData(db_samples, system_now - steady_epoch, retention_days)
    /\ storage_op' = [op |-> "cleanupOldData", retention_days |-> retention_days]
    /\ storage_result' = <<>>
    /\ UNCHANGED <<config_, samples_by_register_, store_log, clock_vars, sweeper_vars>>
    /\ UNCHANGED beside_storage

NextSQLite ==
    \/ \E sample \in StoredSamples : SQLite_StoreSample(sample)
    \/ \E register_address \in Addresses, count \in {0, 1} :
          SQLite_GetSamples(register_address, count)
    \/ \E retention_days \in 0..MaxRetention : SQLite_CleanupOldData(retention_days)

SpecSQLite == InitSQLite /\ [][NextSQLite]_vars

\* HybridDataStorage::storeSample(sample)
Hybrid_StoreSample(sample) ==
    /\ Len(store_log) < MaxStores
    /\ samples_by_register_' =
          Memory_storeSample(samples_by_register_, config_.memory_retention_samples, sample)
    /\ db_samples' = IF PersistsSamples(config_)
                        THEN SQLite_storeSample(db_samples, sample)
                        ELSE db_samples
    /\ store_log' = Append(store_log, sample)
    /\ storage_op' = [op |-> "storeSample", sample |-> sample]
    /\ storage_result' = <<>>
    /\ UNCHANGED <<config_, clock_vars, sweeper_vars>>
    /\ UNCHANGED beside_storage

\* HybridDataStorage::storeSamples(samples): storeSample for each, so the
\* tiers are written in turn, sample by sample
Hybrid_StoreSamples(batch) ==
    /\ Len(store_log) + Len(batch) <= MaxStores
    /\ samples_by_register_' =
          Memory_storeSamples(samples_by_register_, config_.memory_retention_samples, batch)
    /\ db_samples' = IF PersistsSamples(config_)
                        THEN SQLite_storeSamples(db_samples, batch)
                        ELSE db_samples
    /\ store_log' = store_log \o batch
    /\ storage_op' = [op |-> "storeSamples", samples |-> batch]
    /\ storage_result' = <<>>
    /\ UNCHANGED <<config_, clock_vars, sweeper_vars>>
    /\ UNCHANGED beside_storage

\* HybridDataStorage::getLatestSample(register_address)
Hybrid_GetLatestSample(register_address) ==
    /\ storage_result' \in
          Hybrid_getLatestSample(samples_by_register_, db_samples, register_address)
    /\ storage_op' = [op |-> "getLatestSample", register_address |-> register_address]
    /\ UNCHANGED <<config_, samples_by_register_, db_samples, store_log, clock_vars,
                   sweeper_vars>>
    /\ UNCHANGED beside_storage

NextHybrid ==
    \/ \E sample \in StoredSamples : Hybrid_StoreSample(sample)
    \/ \E batch \in Batches : Hybrid_StoreSamples(batch)
    \/ \E register_address \in Addresses : Hybrid_GetLatestSample(register_address)

SpecHybrid == InitHybrid /\ [][NextHybrid]_vars

(***************************************************************************)
(* The retention sweeper.  The controlling thread starts and stops the     *)
(* task; cleanup_thread_ = "joining" while stopCleanupTask waits in        *)
(* join().  The cleanup thread runs cleanupLoop.                           *)
(***************************************************************************)
\* startCleanupTask(): if (!cleanup_active_.load()) { store(true); spawn }
StartCleanupTask ==
    /\ cleanup_thread_ = "none"
    /\ ~cleanup_active_
    /\ cleanup_active_' = TRUE
    /\ cleanup_thread_' = "thread"
    /\ spc' = "test"
    /\ storage_op' = [op |-> "startCleanupTask"]
    /\ UNCHANGED <<config_, samples_by_register_, db_samples, store_log, storage_result,
                   clock_vars>>
    /\ UNCHANGED beside_storage

\* stopCleanupTask(): if (cleanup_active_.load()) { store(false); join ...
StopCleanupTask_Request ==
    /\ cleanup_thread_ = "thread"
    /\ cleanup_active_
    /\ cleanup_active_' = FALSE
    /\ cleanup_thread_' = "joining"
    /\ storage_op' = [op |-> "stopCleanupTask"]
    /\ UNCHANGED <<config_, samples_by_register_, db_samples, store_log, storage_result,
                   clock_vars, spc>>
    /\ UNCHANGED beside_storage

\* ... cleanup_thread_->join(); cleanup_thread_.reset(); }
StopCleanupTask_Join ==
    /\ cleanup_thread_ = "joining"
    /\ spc = "done"
    /\ cleanup_thread_' = "none"
    /\ spc' = "none"
    /\ UNCHANGED <<config_, samples_by_register_, db_samples, store_log, storage_result,
                   storage_op, clock_vars, cleanup_active_>>
    /\ UNCHANGED beside_storage

\* while (cleanup_active_.load())
CleanupLoop_Test ==
    /\ spc = "test"
    /\ spc' = IF cleanup_active_ THEN "cleanup" ELSE "done"
    /\ UNCHANGED <<config_, samples_by_register_, db_samples, store_log, storage_result,
                   storage_op, clock_vars, cleanup_active_, cleanup_thread_>>
    /\ UNCHANGED beside_storage

\* if (config_.data_retention_days > 0) cleanupOldData(...); then the sleep
\* of 24 hours begins
CleanupLoop_Cleanup ==
    /\ spc = "cleanup"
    /\ db_samples' =
          IF RetentionConfigured(config_)
             THEN SQLite_cleanupOldData(db_samples, system_now - steady_epoch,
                                        config_.data_retention_days)
             ELSE db_samples
    /\ storage_op' = [op |-> "cleanupLoop", cleanup |-> RetentionConfigured(config_),
                      deleted |-> Len(db_samples) - Len(db_samples')]
    /\ spc' = "sleep"
    /\ UNCHANGED <<config_, samples_by_register_, store_log, storage_result, clock_vars,
                   cleanup_active_, cleanup_thread_>>
    /\ UNCHANGED beside_storage

\* cleanupOldData throws (the statement cannot be prepared or stepped):
\* the catch clause logs and the sleep of 30 minutes begins
CleanupLoop_Throws ==
    /\ spc = "cleanup"
    /\ RetentionConfigured(config_)
    /\ storage_op' = [op |-> "cleanupLoop", cleanup |-> TRUE, deleted |-> 0]
    /\ spc' = "backoff"
    /\ UNCHANGED <<config_, samples_by_register_, db_samples, store_log, storage_result,
                   clock_vars, cleanup_active_, cleanup_thread_>>
    /\ UNCHANGED beside_storage

\* the end of either sleep_for
CleanupLoop_Wake ==
    /\ spc \in {"sleep", "backoff"}
    /\ spc' = "test"
    /\ UNCHANGED <<config_, samples_by_register_, db_samples, store_log, storage_result,
                   storage_op, clock_vars, cleanup_active_, cleanup_thread_>>
    /\ UNCHANGED beside_storage

Sweeper == CleanupLoop_Test \/ CleanupLoop_Cleanup \/ CleanupLoop_Throws \/ CleanupLoop_Wake

NextSweeper ==
    \/ StartCleanupTask
    \/ StopCleanupTask_Request
    \/ StopCleanupTask_Join
    \/ Sweeper
    \/ \E sample \in StoredSamples : Hybrid_StoreSample(sample)

\* the cleanup thread is scheduled as long as it can take a step
SpecSweeper == InitSweeper /\ [][NextSweeper]_vars /\ WF_vars(Sweeper)

(***************************************************************************)
(* Codec: one function applied to one input.                               *)
(***************************************************************************)
\* ModbusFrame::createReadFrame(slave_address, start_address, num_registers)
Codec_CreateReadFrame ==
    /\ codec_in.op = "createReadFrame"
    /\ codec_out = Pending
    /\ codec_out' = [frame |-> createReadFrame(codec_in.slave_address, codec_in.address,
                                                codec_in.word)]
    /\ UNCHANGED <<codec_in, codec_check>>
    /\ UNCHANGED beside_codec

\* ModbusFrame::createWriteFrame(slave_address, register_address, value)
Codec_CreateWriteFrame ==
    /\ codec_in.op = "createWriteFrame"
    /\ codec_out = Pending
    /\ codec_out' = [frame |-> createWriteFrame(codec_in.slave_address, codec_in.address,
                                                 codec_in.word)]
    /\ UNCHANGED <<codec_in, codec_check>>
    /\ UNCHANGED beside_codec

\* ModbusFrame::validateFrame(ModbusFrame::hexToBytes(frame)) of the frame built
Codec_ValidateFrame ==
    /\ codec_in.op \in {"createReadFrame", "createWriteFrame"}
    /\ "frame" \in DOMAIN codec_out
    /\ codec_check = Pending
    /\ codec_check' = IF IsThrow(hexToBytes(codec_out.frame))
                         THEN hexToBytes(codec_out.frame)
                         ELSE [valid |-> validateFrame(hexToBytes(codec_out.frame).bytes)]
    /\ UNCHANGED <<codec_in, codec_out>>
    /\ UNCHANGED beside_codec

\* ModbusFrame::parseResponse(frame_hex)
Codec_ParseResponse ==
    /\ codec_in.op = "parseResponse"
    /\ codec_out = Pending
    /\ codec_out' = parseResponse(codec_in.frame_hex)
    /\ UNCHANGED <<codec_in, codec_check>>
    /\ UNCHANGED beside_codec

NextCodec ==
    \/ Codec_CreateReadFrame
    \/ Codec_CreateWriteFrame
    \/ Codec_ValidateFrame
    \/ Codec_ParseResponse

SpecCodec == InitCodec /\ [][NextCodec]_vars

(***************************************************************************)
(* The device (src/cpp/src/ecoWatt_device.cpp).  One thread at a time is   *)
(* inside startAcquisition or stopAcquisition (both hold state_mutex_ from *)
(* entry to return); it calls the scheduler as the caller "device".        *)
(***************************************************************************)
\* startAcquisition(): if (is_running_.load()) return; initialized_ is true
\* once the constructor has returned
Device_StartAcquisition ==
    /\ dpc = "idle"
    /\ dpc' = IF is_running_ THEN "idle" ELSE "start_test"
    /\ UNCHANGED <<is_running_, hpc, sqlite_storage_, ring_query>>
    /\ UNCHANGED <<scheduler_vars, adapter_vars, storage_vars, codec_vars,
                   max_buffer_size_>>

\* if (!testCommunication()) throw std::runtime_error(...): the read of
\* register 0 gives a sample or not
Device_TestCommunication(outcome) ==
    /\ dpc = "start_test"
    /\ dpc' = IF readSingleRegister(0, outcome) # Nullptr THEN "start_polling"
              ELSE "start_failed"
    /\ UNCHANGED <<is_running_, hpc, sqlite_storage_, ring_query>>
    /\ UNCHANGED <<scheduler_vars, adapter_vars, storage_vars, codec_vars,
                   max_buffer_size_>>

\* the std::runtime_error leaves startAcquisition
Device_StartAcquisition_Throws ==
    /\ dpc = "start_failed"
    /\ dpc' = "idle"
    /\ UNCHANGED <<is_running_, hpc, sqlite_storage_, ring_query>>
    /\ UNCHANGED <<scheduler_vars, adapter_vars, storage_vars, codec_vars,
                   max_buffer_size_>>

\* acquisition_scheduler_->startPolling()
Device_CallStartPolling ==
    /\ dpc = "start_polling"
    /\ StartPolling_Lock("device")

\* a start that returns without recording that the device runs
Device_StartAcquisition_ReturnStale ==
    /\ dpc = "start_polling"
    /\ cpc["device"] = "returned"
    /\ Goto("device", "idle")
    /\ dpc' = "idle"
    /\ UNCHANGED <<is_running_, hpc, sqlite_storage_, ring_query>>
    /\ UNCHANGED <<flag_vars, config_vars, sample_buffer_, statistics_, buffer_mutex_,
                   callbacks_mutex_, worker_vars, history_vars, stop_returned>>
    /\ UNCHANGED <<adapter_vars, storage_vars, codec_vars, max_buffer_size_>>

\* is_running_ = true, after startPolling() has returned
Device_StartAcquisition_Return ==
    /\ dpc = "start_polling"
    /\ cpc["device"] = "returned"
    /\ Goto("device", "idle")
    /\ is_running_' = TRUE
    /\ dpc' = "idle"
    /\ UNCHANGED <<hpc, sqlite_storage_, ring_query>>
    /\ UNCHANGED <<flag_vars, config_vars, sample_buffer_, statistics_, buffer_mutex_,
                   callbacks_mutex_, worker_vars, history_vars, stop_returned>>
    /\ UNCHANGED <<adapter_vars, storage_vars, codec_vars, max_buffer_size_>>

\* stopAcquisition(): if (!is_running_.load()) return
Device_StopAcquisition ==
    /\ dpc = "idle"
    /\ dpc' = IF is_running_ THEN "stop_polling" ELSE "idle"
    /\ UNCHANGED <<is_running_, hpc, sqlite_storage_, ring_query>>
    /\ UNCHANGED <<scheduler_vars, adapter_vars, storage_vars, codec_vars,
                   max_buffer_size_>>

\* acquisition_scheduler_->stopPolling()
Device_CallStopPolling ==
    /\ dpc = "stop_polling"
    /\ StopPolling_Request("device")

\* is_running_ = false, after stopPolling() has returned
Device_StopAcquisition_Return ==
    /\ dpc = "stop_polling"
    /\ cpc["device"] = "returned"
    /\ Goto("device", "idle")
    /\ is_running_' = FALSE
    /\ dpc' = "idle"
    /\ UNCHANGED <<hpc, sqlite_storage_, ring_query>>
    /\ UNCHANGED <<flag_vars, config_vars, sample_buffer_, statistics_, buffer_mutex_,
                   callbacks_mutex_, worker_vars, history_vars, stop_returned>>
    /\ UNCHANGED <<adapter_vars, storage_vars, codec_vars, max_buffer_size_>>

(***************************************************************************)
(* SpecDevice: the acquisition of the device is started and stopped, the   *)
(* communication test passes or fails, and the worker polls in between.    *)
(***************************************************************************)
NextDevice ==
    \/ Device_StartAcquisition
    \/ \E outcome \in ReadOutcomes : Device_TestCommunication(outcome)
    \/ Device_StartAcquisition_Throws
    \/ Device_CallStartPolling
    \/ StartPolling_Check("device")
    \/ StartPolling_ClearStop("device")
    \/ StartPolling_SetActive("device")
    \/ StartPolling_Spawn("device")
    \/ Device_StartAcquisition_Return
    \/ Device_StopAcquisition
    \/ Device_CallStopPolling
    \/ StopPolling_ClearActive("device")
    \/ StopPolling_Join("device")
    \/ Device_StopAcquisition_Return
    \/ \E c \in Clients, kind \in CallbackKinds : AddSampleCallback(c, kind)
    \/ Worker

SpecDevice == Init /\ [][NextDevice]_vars

(***************************************************************************)
(* SpecClients: two threads call startPolling() and stopPolling() of one   *)
(* scheduler, in any interleaving, while the worker polls.                 *)
(***************************************************************************)
ConcurrentClients == {"main", "second"}

NextClients ==
    \/ \E c \in ConcurrentClients : StartPolling_Lock(c)
    \/ \E c \in ConcurrentClients : StartPolling_Check(c)
    \/ \E c \in ConcurrentClients : StartPolling_ClearStop(c)
    \/ \E c \in ConcurrentClients : StartPolling_SetActive(c)
    \/ \E c \in ConcurrentClients : StartPolling_Spawn(c)
    \/ \E c \in ConcurrentClients : StopPolling_Request(c)
    \/ \E c \in ConcurrentClients : StopPolling_ClearActive(c)
    \/ \E c \in ConcurrentClients : StopPolling_Join(c)
    \/ WorkerNoSubscribers

SpecClients == Init /\ [][NextClients]_vars

(***************************************************************************)
(* SpecSubscribers: the controller adds subscribers, among them one that   *)
(* subscribes again from inside its callback, before or while the worker   *)
(* polls.                                                                  *)
(***************************************************************************)
NextSubscribers ==
    \/ \E c \in Clients : StartPolling_Lock(c)
    \/ \E c \in Clients : StartPolling_Check(c)
    \/ \E c \in Clients : StartPolling_ClearStop(c)
    \/ \E c \in Clients : StartPolling_SetActive(c)
    \/ \E c \in Clients : StartPolling_Spawn(c)
    \/ \E c \in Clients, kind \in SubscribingKinds : AddSampleCallback(c, kind)
    \/ \E outcome \in RelockOutcomes : StoreSample_InvokeSubscribing(outcome)
    \/ Worker

SpecSubscribers == Init /\ [][NextSubscribers]_vars

(***************************************************************************)
(* SpecCatalogue: the controller rewrites the catalogue and the minimum    *)
(* registers, statement by statement, while the worker polls.  The read of *)
(* register_configs_ in readSingleRegister gives the name, unit and gain   *)
(* of the sample, which the model does not keep.                           *)
(***************************************************************************)
NextCatalogue ==
    \/ \E c \in Clients : StartPolling_Lock(c)
    \/ \E c \in Clients : StartPolling_Check(c)
    \/ \E c \in Clients : StartPolling_ClearStop(c)
    \/ \E c \in Clients : StartPolling_SetActive(c)
    \/ \E c \in Clients : StartPolling_Spawn(c)
    \/ \E c \in Clients : SetMinimumRegisters_Begin(c)
    \/ \E c \in Clients, registers \in MinimumLists : SetMinimumRegisters_End(c, registers)
    \/ \E c \in Clients : ConfigureRegisters_Lock(c)
    \/ \E c \in Clients, catalogue \in Catalogues : ConfigureRegisters_Assign(c, catalogue)
    \/ \E seen \in MinimumLists : PerformPollCycle_AddMinimumRacing(seen)
    \/ WorkerNoSubscribers

SpecCatalogue == Init /\ [][NextCatalogue]_vars

(***************************************************************************)
(* The queries of the scheduler ring and SpecRing: a scheduler of each     *)
(* capacity polls, the system clock advances between the cycles, and the   *)
(* controller queries the ring between any two steps of the worker.        *)
(***************************************************************************)
\* counts handed to getRecentSamples and getSamplesByRegister (size_t)
QueryCounts == {0, 1, 2, 3}
\* the values of max_buffer_size_ the ring is checked for
RingCapacities == {1, 2}

Reverse(s) == [i \in 1..Len(s) |-> s[Len(s) + 1 - i]]

\* a query that takes its samples from the front of the ring
getRecentSamplesFromFront(buffer, count) ==
    SubSeq(buffer, 1, Min({count, Len(buffer)}))

\* getRecentSamples(count): num_samples = std::min(count, size());
\* result.assign(end() - num_samples, end())
getRecentSamples(buffer, count) ==
    LET num_samples == Min({count, Len(buffer)})
    IN  SubSeq(buffer, Len(buffer) - num_samples + 1, Len(buffer))

\* the loop of getSamplesByRegister: from rbegin() towards rend() while
\* result.size() < count, push_back of every sample of the register
RECURSIVE CollectFromBack(_, _, _, _, _)
CollectFromBack(buffer, i, register_address, count, found) ==
    IF i = 0 \/ Len(found) >= count THEN found
    ELSE CollectFromBack(buffer, i - 1, register_address, count,
                         IF buffer[i].register_address = register_address
                            THEN Append(found, buffer[i])
                            ELSE found)

\* getSamplesByRegister(register_address, count): the loop, then std::reverse
getSamplesByRegister(buffer, register_address, count) ==
    Reverse(CollectFromBack(buffer, Len(buffer), register_address, count, <<>>))

\* getRecentSamples(count), under buffer_mutex_
GetRecentSamples(c, count) ==
    /\ cpc[c] = "idle"
    /\ buffer_mutex_ = "free"
    /\ ring_query' = [op |-> "getRecentSamples", count |-> count,
                      result |-> getRecentSamples(sample_buffer_, count)]
    /\ UNCHANGED <<is_running_, dpc, hpc, sqlite_storage_>>
    /\ UNCHANGED <<scheduler_vars, adapter_vars, storage_vars, codec_vars,
                   max_buffer_size_>>

\* getSamplesByRegister(register_address, count), under buffer_mutex_
GetSamplesByRegister(c, register_address, count) ==
    /\ cpc[c] = "idle"
    /\ buffer_mutex_ = "free"
    /\ ring_query' = [op |-> "getSamplesByRegister", count |-> count,
                      register_address |-> register_address,
                      result |-> getSamplesByRegister(sample_buffer_, register_address,
                                                      count)]
    /\ UNCHANGED <<is_running_, dpc, hpc, sqlite_storage_>>
    /\ UNCHANGED <<scheduler_vars, adapter_vars, storage_vars, codec_vars,
                   max_buffer_size_>>

\* the system clock goes on by a day while the worker sleeps between two
\* cycles, at most once for each cycle made
Clock_Advance ==
    /\ wpc = "sleep"
    /\ system_now < MaxDay
    /\ system_now < statistics_.total_polls
    /\ system_now' = system_now + 1
    /\ UNCHANGED <<config_, samples_by_register_, db_samples, steady_epoch, sweeper_vars,
                   storage_result, storage_op, store_log>>
    /\ UNCHANGED beside_storage

\* a scheduler of each ring capacity, the clock at day 0
InitRing ==
    /\ SchedulerInit
    /\ AdapterInit(3)
    /\ StorageInit(DefaultStorageConfig, <<>>, 0, 0)
    /\ CodecInit(NoCodecCall)
    /\ CallerInit
    /\ \E capacity \in RingCapacities : RingInit(capacity)

NextRing ==
    \/ \E c \in Clients : StartPolling_Lock(c)
    \/ \E c \in Clients : StartPolling_Check(c)
    \/ \E c \in Clients : StartPolling_ClearStop(c)
    \/ \E c \in Clients : StartPolling_SetActive(c)
    \/ \E c \in Clients : StartPolling_Spawn(c)
    \/ \E c \in Clients, count \in QueryCounts : GetRecentSamples(c, count)
    \/ \E c \in Clients, address \in Addresses, count \in QueryCounts :
          GetSamplesByRegister(c, address, count)
    \/ Clock_Advance
    \/ WorkerNoSubscribers

SpecRing == InitRing /\ [][NextRing]_vars

(***************************************************************************)
(* SpecBatch: one thread stores a batch in a SQLiteDataStorage, call by    *)
(* call as storeSamples makes them, while another thread reads the         *)
(* statistics of the store.  Every storeSample and every getStatistics     *)
(* holds mutex_ from entry to return and is one step.                      *)
(***************************************************************************)
\* getStatistics(): SELECT COUNT(*) FROM samples, and the count of each
\* register_address (GROUP BY)
SQLite_getStatistics(table) ==
    [total_samples |-> Len(table),
     samples_by_register |->
        [a \in {row.register_address : row \in Range(table)} |-> Len(RowsOf(table, a))]]

\* storeSamples(samples) is called: the loop over the batch begins
SQLite_StoreSamples_Call(batch) ==
    /\ storage_op.op # "storeSamples"
    /\ Len(store_log) + Len(batch) <= MaxStores
    /\ storage_op' = [op |-> "storeSamples", samples |-> batch, stored |-> 0,
                      rows_before |-> Len(db_samples)]
    /\ UNCHANGED <<config_, samples_by_register_, db_samples, store_log, storage_result,
                   clock_vars, sweeper_vars>>
    /\ UNCHANGED beside_storage

\* one turn of "for (const auto& sample : samples) storeSample(sample);":
\* storeSample locks mutex_, inserts the row and unlocks
SQLite_StoreSamples_Next ==
    /\ storage_op.op = "storeSamples"
    /\ storage_op.stored < Len(storage_op.samples)
    /\ db_samples' = SQLite_storeSample(db_samples,
                                        storage_op.samples[storage_op.stored + 1])
    /\ store_log' = Append(store_log, storage_op.samples[storage_op.stored + 1])
    /\ storage_op' = [storage_op EXCEPT !.stored = @ + 1]
    /\ UNCHANGED <<config_, samples_by_register_, storage_result, clock_vars,
                   sweeper_vars>>
    /\ UNCHANGED beside_storage

\* storeSamples returns
SQLite_StoreSamples_Return ==
    /\ storage_op.op = "storeSamples"
    /\ storage_op.stored = Len(storage_op.samples)
    /\ storage_op' = NoOperation
    /\ UNCHANGED <<config_, samples_by_register_, db_samples, store_log, storage_result,
                   clock_vars, sweeper_vars>>
    /\ UNCHANGED beside_storage

\* getStatistics() on the reading thread; `during` is the call the writing
\* thread is in
SQLite_GetStatistics ==
    /\ storage_result' = [statistics |-> SQLite_getStatistics(db_samples),
                          during |-> storage_op]
    /\ UNCHANGED <<config_, samples_by_register_, db_samples, store_log, storage_op,
                   clock_vars, sweeper_vars>>
    /\ UNCHANGED beside_storage

NextBatch ==
    \/ \E batch \in Batches : SQLite_StoreSamples_Call(batch)
    \/ SQLite_StoreSamples_Next
    \/ SQLite_StoreSamples_Return
    \/ SQLite_GetStatistics

SpecBatch == InitSQLite /\ [][NextBatch]_vars

(***************************************************************************)
(* startCleanupTask, stopCleanupTask and the destructor of the hybrid      *)
(* store, statement by statement, for callers that may run concurrently.   *)
(* hpc[c] names the call thread c is in and the statement it is at; the    *)
(* destructor runs stopCleanupTask and then destroys the members.          *)
(***************************************************************************)
beside_hybrid == <<scheduler_vars, adapter_vars, codec_vars, max_buffer_size_,
                   is_running_, dpc, ring_query>>

At(c, call, at) == hpc[c] = [call |-> call, at |-> at]

Enter(c, call, at) == hpc' = [hpc EXCEPT ![c] = [call |-> call, at |-> at]]

\* where stopCleanupTask returns to: the caller, or the end of the destructor
LeaveStop(c) ==
    IF hpc[c].call = "destructor" THEN Enter(c, "destructor", "members")
    ELSE hpc' = [hpc EXCEPT ![c] = Idle]

\* std::terminate(): the process ends, no thread takes another step
Terminate ==
    /\ cleanup_thread_' = "terminate"
    /\ spc' = "aborted"
    /\ hpc' = [c \in StoreCallers |-> [call |-> "none", at |-> "aborted"]]

\* startCleanupTask(): if (!cleanup_active_.load())
StartCleanup_Test(c) ==
    /\ hpc[c] = Idle
    /\ sqlite_storage_ = "open"
    /\ IF cleanup_active_ THEN hpc' = hpc ELSE Enter(c, "start", "store")
    /\ UNCHANGED <<config_, samples_by_register_, db_samples, store_log, storage_result,
                   storage_op, clock_vars, sweeper_vars, sqlite_storage_>>
    /\ UNCHANGED beside_hybrid

\* cleanup_active_.store(true)
StartCleanup_Store(c) ==
    /\ At(c, "start", "store")
    /\ cleanup_active_' = TRUE
    /\ Enter(c, "start", "spawn")
    /\ UNCHANGED <<config_, samples_by_register_, db_samples, store_log, storage_result,
                   storage_op, clock_vars, cleanup_thread_, spc, sqlite_storage_>>
    /\ UNCHANGED beside_hybrid

\* cleanup_thread_ = std::make_unique<std::thread>(&cleanupLoop, this): the
\* new thread is created, then the handle held before is destroyed; a handle
\* that is joinable ends the process
StartCleanup_Spawn(c) ==
    /\ At(c, "start", "spawn")
    /\ IF cleanup_thread_ = "thread"
          THEN Terminate
          ELSE /\ cleanup_thread_' = "thread"
               /\ spc' = "test"
               /\ hpc' = [hpc EXCEPT ![c] = Idle]
    /\ UNCHANGED <<config_, samples_by_register_, db_samples, store_log, storage_result,
                   storage_op, clock_vars, cleanup_active_, sqlite_storage_>>
    /\ UNCHANGED beside_hybrid

\* stopCleanupTask() is called
StopCleanup_Call(c) ==
    /\ hpc[c] = Idle
    /\ sqlite_storage_ = "open"
    /\ Enter(c, "stop", "test")
    /\ UNCHANGED <<config_, samples_by_register_, db_samples, store_log, storage_result,
                   storage_op, clock_vars, sweeper_vars, sqlite_storage_>>
    /\ UNCHANGED beside_hybrid

\* ~HybridDataStorage() is called: its body is stopCleanupTask()
Destructor_Call(c) ==
    /\ \A d \in StoreCallers : hpc[d] = Idle
    /\ sqlite_storage_ = "open"
    /\ Enter(c, "destructor", "test")
    /\ UNCHANGED <<config_, samples_by_register_, db_samples, store_log, storage_result,
                   storage_op, clock_vars, sweeper_vars, sqlite_storage_>>
    /\ UNCHANGED beside_hybrid

\* if (cleanup_active_.load())
StopCleanup_Test(c) ==
    /\ hpc[c].at = "test"
    /\ IF cleanup_active_ THEN Enter(c, hpc[c].call, "store") ELSE LeaveStop(c)
    /\ UNCHANGED <<config_, samples_by_register_, db_samples, store_log, storage_result,
                   storage_op, clock_vars, sweeper_vars, sqlite_storage_>>
    /\ UNCHANGED beside_hybrid

\* cleanup_active_.store(false)
StopCleanup_Store(c) ==
    /\ hpc[c].call \in {"stop", "destructor"}
    /\ hpc[c].at = "store"
    /\ cleanup_active_' = FALSE
    /\ Enter(c, hpc[c].call, "join")
    /\ UNCHANGED <<config_, samples_by_register_, db_samples, store_log, storage_result,
                   storage_op, clock_vars, cleanup_thread_, spc, sqlite_storage_>>
    /\ UNCHANGED beside_hybrid

\* a stop that resets the handle without waiting for the thread
StopCleanup_ResetDetached(c) ==
    /\ hpc[c].at = "join"
    /\ cleanup_thread_' = "none"
    /\ spc' = spc
    /\ LeaveStop(c)
    /\ UNCHANGED <<config_, samples_by_register_, db_samples, store_log, storage_result,
                   storage_op, clock_vars, cleanup_active_, sqlite_storage_>>
    /\ UNCHANGED beside_hybrid

\* if (cleanup_thread_ && cleanup_thread_->joinable()) cleanup_thread_->join();
\* cleanup_thread_.reset(): join() returns once cleanupLoop() has returned
StopCleanup_JoinReset(c) ==
    /\ hpc[c].at = "join"
    /\ IF cleanup_thread_ = "thread"
          THEN /\ spc = "done"
               /\ spc' = "none"
          ELSE /\ spc' = spc
    /\ cleanup_thread_' = "none"
    /\ LeaveStop(c)
    /\ UNCHANGED <<config_, samples_by_register_, db_samples, store_log, storage_result,
                   storage_op, clock_vars, cleanup_active_, sqlite_storage_>>
    /\ UNCHANGED beside_hybrid

\* the members are destroyed in reverse order of declaration: cleanup_thread_
\* (a joinable thread ends the process), then sqlite_storage_, whose
\* destructor closes the database
Destructor_Members(c) ==
    /\ At(c, "destructor", "members")
    /\ IF cleanup_thread_ = "thread"
          THEN /\ Terminate
               /\ sqlite_storage_' = sqlite_storage_
          ELSE /\ sqlite_storage_' = "released"
               /\ Enter(c, "none", "destroyed")
               /\ UNCHANGED <<cleanup_thread_, spc>>
    /\ UNCHANGED <<config_, samples_by_register_, db_samples, store_log, storage_result,
                   storage_op, clock_vars, cleanup_active_>>
    /\ UNCHANGED beside_hybrid

(***************************************************************************)
(* SpecTeardown: one thread starts and stops the sweeper and destroys the  *)
(* hybrid store, while the sweeper runs.                                   *)
(***************************************************************************)
Owner == {"c1"}

NextTeardown ==
    \/ \E c \in Owner : StartCleanup_Test(c)
    \/ \E c \in Owner : StartCleanup_Store(c)
    \/ \E c \in Owner : StartCleanup_Spawn(c)
    \/ \E c \in Owner : StopCleanup_Call(c)
    \/ \E c \in Owner : Destructor_Call(c)
    \/ \E c \in Owner : StopCleanup_Test(c)
    \/ \E c \in Owner : StopCleanup_Store(c)
    \/ \E c \in Owner : StopCleanup_JoinReset(c)
    \/ \E c \in Owner : Destructor_Members(c)
    \/ Sweeper

SpecTeardown == InitSweeper /\ [][NextTeardown]_vars

(***************************************************************************)
(* SpecSweeperCalls: two threads call startCleanupTask and stopCleanupTask *)
(* of one hybrid store, in any interleaving, while the sweeper runs.       *)
(***************************************************************************)
NextSweeperCalls ==
    \/ \E c \in StoreCallers : StartCleanup_Test(c)
    \/ \E c \in StoreCallers : StartCleanup_Store(c)
    \/ \E c \in StoreCallers : StartCleanup_Spawn(c)
    \/ \E c \in StoreCallers : StopCleanup_Call(c)
    \/ \E c \in StoreCallers : StopCleanup_Test(c)
    \/ \E c \in StoreCallers : StopCleanup_Store(c)
    \/ \E c \in StoreCallers : StopCleanup_JoinReset(c)
    \/ Sweeper

SpecSweeperCalls == InitSweeper /\ [][NextSweeperCalls]_vars

(***************************************************************************)
(* Properties.                                                             *)
(***************************************************************************)
WorkerTerminated == wpc \in {"none", "done"}

Count(seq, x) == Cardinality({i \in 1..Len(seq) : seq[i] = x})

\* C1: once stopPolling() has returned the worker has terminated and
\* isPolling() is false, and until startPolling() is called again no sample is
\* appended to the ring and no subscriber is invoked.
C1_StopJoinsWorker ==
    /\ [](stop_returned => (WorkerTerminated /\ ~polling_active_))
    /\ [][stop_returned =>
            /\ sample_buffer_' = sample_buffer_
            /\ pushed' = pushed
            /\ delivered' = delivered
            /\ error_notified' = error_notified]_vars

\* stopPolling() has returned after joining a worker that had published
C1_Witness ==
    /\ stop_returned
    /\ polling_thread_ = "joined"
    /\ sample_buffer_ # <<>>
    /\ sample_callbacks_ # <<>>

\* C2: startPolling() while polling is a no-op: the call returns from its
\* check with the flags, the thread handle and the worker as they were, and a
\* call gets past the check only when no worker is alive.
C2_StartWhilePollingIsNoOp ==
    /\ [](\A c \in Clients :
            cpc[c] \in {"start_clear", "start_set", "start_spawn"} => WorkerTerminated)
    /\ [][\A c \in Clients :
            (cpc[c] = "start_check" /\ polling_active_ /\ cpc'[c] # "start_check") =>
                /\ cpc'[c] = "idle"
                /\ UNCHANGED <<flag_vars, worker_vars>>
                /\ polling_active_']_vars

\* startPolling() is at its check while a worker is in a poll cycle
C2_Witness ==
    \E c \in Clients :
        /\ cpc[c] = "start_check"
        /\ polling_active_
        /\ polling_thread_ = "joinable"
        /\ wpc = "read"

\* C3: the sleep between two cycles is cancellable: with stop requested the
\* worker waits out no further part of polling_interval.
C3_SleepIsCancellable ==
    [][(wpc = "sleep" /\ stop_requested_ /\ wpc' = "sleep") => sleep_left' = sleep_left]_vars

\* C4: the worker checks the stop flag after every adapter call: an adapter
\* call made with the flag set is the last one of its poll cycle.
C4_StopCheckedAfterAdapterCall ==
    [][(wpc = "read" /\ stop_at_read) => polled' = polled]_vars

\* a poll cycle whose every read failed has done its reads
AllReadsFailed == wpc = "stats" /\ polled # <<>> /\ samples = <<>>

\* C5: the worker never exits on error: while stop is not requested the worker
\* is alive and isPolling() is true, and after a cycle in which every read
\* failed a next cycle begins (as long as total_polls is below MaxPolls).
C5_WorkerSurvivesFailedCycle ==
    /\ []((polling_thread_ = "joinable" /\ ~stop_requested_) =>
             (polling_active_ /\ ~WorkerTerminated))
    /\ ((AllReadsFailed /\ ~stop_requested_) ~>
           (wpc = "collect" \/ stop_requested_ \/ statistics_.total_polls >= MaxPolls))

\* every read of a cycle has failed and stop is not requested
C5_Witness ==
    /\ AllReadsFailed
    /\ Len(polled) = 2
    /\ ~stop_requested_
    /\ polling_active_

\* C6: every read error of a poll cycle is delivered to the error subscribers
\* registered when the cycle began: at the end of a cycle with failed reads
\* they have been invoked.
C6_ReadErrorsArePublished ==
    (wpc = "stats" /\ read_failures > 0 /\ cycle_subs.error > 0) => error_notified > 0

\* C7: total_polls = successful_polls + failed_polls at all times, and the end
\* of a poll cycle adds one to total_polls and to exactly one of
\* successful_polls (samples were acquired) and failed_polls (none was, and
\* last_error becomes "No samples acquired").
C7_PollCounters ==
    /\ [](statistics_.total_polls =
            statistics_.successful_polls + statistics_.failed_polls)
    /\ [][(wpc = "stats" /\ wpc' # "stats") =>
            /\ statistics_'.total_polls = statistics_.total_polls + 1
            /\ IF samples # <<>>
                  THEN /\ statistics_'.successful_polls = statistics_.successful_polls + 1
                       /\ statistics_'.failed_polls = statistics_.failed_polls
                       /\ statistics_'.last_error = statistics_.last_error
                  ELSE /\ statistics_'.failed_polls = statistics_.failed_polls + 1
                       /\ statistics_'.successful_polls = statistics_.successful_polls
                       /\ statistics_'.last_error = NoSamplesAcquired]_vars

\* a successful and a failed cycle have been counted
C7_Witness ==
    /\ statistics_.successful_polls = 1
    /\ statistics_.failed_polls = 1
    /\ statistics_.last_error = NoSamplesAcquired

\* C8: within a poll cycle the registers are read, and their samples
\* published, in ascending address order.
C8_AscendingAddressOrder == IsAscending(polled) /\ IsAscending(pushed)

\* C9: at the end of a cycle whose every read succeeded, each address of
\* (catalogue \cup minimum registers) was read once and its sample appended
\* once to the ring and delivered once to every subscriber registered when the
\* cycle began; no other address was read.
C9_OneSamplePerAddress ==
    (wpc = "stats" /\ read_failures = 0) =>
        /\ Range(polled) = cycle_union
        /\ \A a \in cycle_union :
              /\ Count(polled, a) = 1
              /\ Count(pushed, a) = 1
              /\ \A k \in 1..cycle_subs.sample : Count(delivered, <<k, a>>) = 1

\* a cycle over two addresses with two subscribers has ended without a failure
C9_Witness ==
    /\ wpc = "stats"
    /\ read_failures = 0
    /\ Cardinality(cycle_union) = 2
    /\ cycle_subs.sample = 2
    /\ Len(delivered) = 4

Returned(t) == apc[t] = "returned"

\* change of a counter of stats_ since the call of thread t was made
Delta(t, counter) == stats_[counter] - stats_before[t][counter]

\* the exception responses of the model and the code each carries
ExceptionFrames == {ExceptionResponse, WriteExceptionResponse}
ExceptionCodeOf(frame) == IF frame = ExceptionResponse THEN 2 ELSE 3

\* C11, as claimed: an operation never makes more than max_retries HTTP
\* attempts, and an operation that fails makes exactly max_retries attempts
\* (read here of the operations that got as far as building their frame).
C11_FailureTakesAllAttempts ==
    \A t \in AdapterThreads :
        /\ Len(attempt_log[t]) <= max_retries
        /\ (Returned(t) /\ IsThrow(result[t]) /\ request_frame[t] # <<>>) =>
               Len(attempt_log[t]) = max_retries

\* C11, amended: an operation never makes more than max_retries HTTP
\* attempts; one that succeeds makes at least one and its last attempt
\* delivered the frame; one that fails without any attempt delivering a frame
\* and was not rejected for its register count makes exactly max_retries
\* attempts; one that fails on a delivered frame ends with that attempt; one
\* rejected for its register count makes none.
C11_RetryBound ==
    \A t \in AdapterThreads :
        /\ Len(attempt_log[t]) <= max_retries
        /\ (Returned(t) /\ ~IsThrow(result[t])) =>
               /\ Len(attempt_log[t]) >= 1
               /\ attempt_log[t][Len(attempt_log[t])] = "frame"
        /\ (Returned(t) /\ IsThrow(result[t])) =>
               IF request_frame[t] = <<>>
                  THEN attempt_log[t] = <<>>
                  ELSE IF "frame" \in Range(attempt_log[t])
                          THEN attempt_log[t][Len(attempt_log[t])] = "frame"
                          ELSE Len(attempt_log[t]) = max_retries

C11_Witness ==
    /\ max_retries = 2
    /\ Returned("t1")
    /\ IsThrow(result["t1"])
    /\ attempt_log["t1"] = <<"no response", "no frame">>

\* C12: after an exception response has been received the operation issues
\* no further HTTP attempt, and the caller gets an error that carries the
\* exception code of the response.
C12_ExceptionResponseIsTerminal ==
    /\ [](\A t \in AdapterThreads :
             (Returned(t) /\ response_frame[t] \in ExceptionFrames) =>
                 result[t] = ThrowsCode(ExceptionCodeOf(response_frame[t])))
    /\ [][\A t \in AdapterThreads :
             (response_frame[t] \in ExceptionFrames /\ apc'[t] # "idle") =>
                 attempt_log'[t] = attempt_log[t]]_vars

C12_Witness ==
    /\ max_retries = 3
    /\ Returned("t1")
    /\ response_frame["t1"] = ExceptionResponse
    /\ attempt_log["t1"] = <<"non-2xx", "frame">>

C14_StatisticsConsistency ==
    \A t \in Callers :
        apc[t] \in {"idle", "returned"} =>
            stats_.total_requests = stats_.successful_requests + stats_.failed_requests

C14_Witness ==
    /\ Returned("t1")
    /\ calls_made = 2
    /\ stats_.successful_requests = 1
    /\ stats_.failed_requests >= 1
    /\ stats_.retry_attempts >= 1

\* C15: an operation that succeeds on its k-th attempt changes
\* total_requests by k, successful_requests by 1, failed_requests by 0 and
\* retry_attempts by k - 1.
C15_PerAttemptAccounting ==
    \A t \in AdapterThreads :
        (Returned(t) /\ ~IsThrow(result[t])) =>
            /\ Delta(t, "total_requests") = Len(attempt_log[t])
            /\ Delta(t, "successful_requests") = 1
            /\ Delta(t, "failed_requests") = 0
            /\ Delta(t, "retry_attempts") = Len(attempt_log[t]) - 1

\* C16: readRegisters with a register count of 0 or above 125 has thrown
\* when it returns control, without a frame and without an HTTP attempt;
\* with a count in 1..125 the frame is built and the call is not rejected.
C16_RegisterCountIsValidated ==
    \A t \in AdapterThreads :
        request[t].op = "read" =>
            IF request[t].num_registers \in 1..125
               THEN /\ request_frame[t] # <<>>
                    /\ result[t] # Throws("ModbusException", "Invalid number of registers")
               ELSE /\ Returned(t)
                    /\ result[t] = Throws("ModbusException", "Invalid number of registers")
                    /\ request_frame[t] = <<>>
                    /\ attempt_log[t] = <<>>

C16_Witness ==
    /\ max_retries = 3
    /\ Returned("t1")
    /\ request["t1"].op = "read"
    /\ request["t1"].num_registers = 126
    /\ IsThrow(result["t1"])

\* C17: a readRegisters call rejected for its register count adds one to
\* total_requests and one to failed_requests.
C17_RejectedCallIsCounted ==
    \A t \in AdapterThreads :
        ( /\ Returned(t)
          /\ request[t].op = "read"
          /\ request[t].num_registers \notin 1..125 )
        => /\ Delta(t, "total_requests") = 1
           /\ Delta(t, "failed_requests") = 1

\* C18: writeRegister reports success only if the response is a write
\* response that echoes the requested address and value.
C18_WriteEchoIsVerified ==
    \A t \in AdapterThreads :
        (Returned(t) /\ request[t].op = "write" /\ ~IsThrow(result[t])) =>
            /\ ~IsThrow(hexToBytes(response_frame[t]))
            /\ LET bytes == hexToBytes(response_frame[t]).bytes IN
               /\ bytes[2] = 6
               /\ SubSeq(bytes, 3, Len(bytes) - 2)
                    = << request[t].register_address \div 256,
                         request[t].register_address % 256,
                         request[t].value \div 256, request[t].value % 256 >>

\* C19: a 2xx response whose frame the codec rejects (odd length, non-hex
\* character, fewer than 5 bytes, CRC mismatch) is followed by no further
\* HTTP attempt and the operation ends with an error.
C19_InvalidFrameIsNotRetried ==
    /\ [](\A t \in AdapterThreads :
             (Returned(t) /\ response_frame[t] \in InvalidFrames) => IsThrow(result[t]))
    /\ [][\A t \in AdapterThreads :
             (response_frame[t] \in InvalidFrames /\ apc'[t] # "idle") =>
                 attempt_log'[t] = attempt_log[t]]_vars

C19_Witness ==
    /\ max_retries = 3
    /\ Returned("t1")
    /\ response_frame["t1"] = BadCrcFrame
    /\ attempt_log["t1"] = <<"frame">>
    /\ IsThrow(result["t1"])

\* C20: when every thread has made one readRegisters call, each answered on
\* its first attempt, and all calls have their outcome, total_requests
\* equals the number of calls made.
C20_NoLostStatisticsUpdate ==
    ( /\ calls_made = Cardinality(AdapterThreads)
      /\ \A t \in AdapterThreads : Returned(t) /\ attempt_log[t] = <<"frame">> )
    => stats_.total_requests = calls_made

(***************************************************************************)
(* Properties of the storage.                                              *)
(***************************************************************************)
\* the samples of store_log stored for one address, in store order
StoredFor(register_address) ==
    SelectSeq(store_log, LAMBDA sample : sample.register_address = register_address)

\* the last n elements of a sequence
LastOf(seq, n) == SubSeq(seq, Len(seq) - n + 1, Len(seq))

\* C21: in a MemoryDataStorage of capacity C the deque of every address has
\* at most C samples, and it holds exactly the min(C, k) most recently stored
\* samples of that address, in store order, where k counts the samples stored
\* for the address since its deque was last cleared.
C21_RingCapacity ==
    \A a \in Addresses :
        LET k == Len(StoredFor(a))
            limit == config_.memory_retention_samples
        IN  /\ Len(samples_by_register_[a]) <= limit
            /\ samples_by_register_[a] = LastOf(StoredFor(a), IF k < limit THEN k ELSE limit)

\* a batch of two different samples of one address went into a deque of
\* capacity 1: the older one was evicted
C21_Witness ==
    /\ storage_op.op = "storeSamples"
    /\ config_.memory_retention_samples = 1
    /\ \E a \in Addresses :
          /\ Len(StoredFor(a)) = 2
          /\ StoredFor(a)[1] # StoredFor(a)[2]
          /\ samples_by_register_[a] = <<StoredFor(a)[2]>>

\* C22: clearSamples(addr) without the clear-all flag empties the deque of
\* addr and leaves the deque of every other address as it was, for every
\* address, 0 included.
C22_ClearTouchesOneAddress ==
    [][(storage_op'.op = "clearSamples" /\ ~storage_op'.clear_all)
          => /\ samples_by_register_'[storage_op'.register_address] = <<>>
             /\ \A b \in Addresses \ {storage_op'.register_address} :
                   samples_by_register_'[b] = samples_by_register_[b]]_vars

\* the fields a stored and a retrieved sample are compared on
SameReading(a, b) ==
    /\ a.register_address = b.register_address
    /\ a.raw_value = b.raw_value
    /\ a.scaled_value = b.scaled_value
    /\ a.unit = b.unit

\* C23: a sample stored with SQLiteDataStorage::storeSample and read back
\* with getSamples(addr, 1) equals the stored sample in register address,
\* raw_value, scaled_value and unit (stated of a table that holds the one
\* sample stored for addr).
C23_DurableRoundTrip ==
    (/\ storage_op.op = "getSamples"
     /\ storage_op.count = 1
     /\ Len(StoredFor(storage_op.register_address)) = 1
     /\ Len(RowsOf(db_samples, storage_op.register_address)) = 1)
    => /\ Len(storage_result) = 1
       /\ SameReading(storage_result[1], StoredFor(storage_op.register_address)[1])

\* C24: cleanupOldData(retention_days) deletes exactly the rows whose
\* timestamp is older than the system clock's now minus retention_days: none
\* of them remains and every newer row is still in the table.
C24_CleanupDeletesExpired ==
    [][storage_op'.op = "cleanupOldData"
          => db_samples' =
                SelectSeq(db_samples,
                          LAMBDA row : ~(row.timestamp
                                           < system_now - storage_op'.retention_days))]_vars

\* the rows of a sequence of samples
RowsOfSamples(samples_) == [i \in 1..Len(samples_) |-> RowOf(samples_[i])]

C27_SweeperHonoursConfiguration ==
    storage_op.op = "cleanupLoop"
    => /\ storage_op.cleanup
             <=> (config_.data_retention_days > 0 /\ config_.enable_persistent_storage)
       /\ (config_.data_retention_days = 0 \/ ~config_.enable_persistent_storage)
             => storage_op.deleted = 0

(***************************************************************************)
(* Properties of the codec.                                                *)
(***************************************************************************)
\* C28: for every slave address, register address, value and register count
\* the frame built by createReadFrame or createWriteFrame decodes with
\* hexToBytes to bytes that pass validateFrame.
C28_CrcRoundTrip ==
    codec_check # Pending => codec_check = [valid |-> TRUE]

\* a read frame and a write frame were built for the largest arguments and
\* validated
C28_Witness ==
    /\ codec_in.op \in {"createReadFrame", "createWriteFrame"}
    /\ codec_in.slave_address = 255
    /\ codec_in.address = 65535
    /\ codec_in.word = 65535
    /\ codec_check # Pending

\* createReadFrame(0x11, 0x0000, 2)
ReadTwoRegisters ==
    [op |-> "createReadFrame", slave_address |-> SlaveAddress, address |-> 0, word |-> 2]

\* C29 as stated: the read-holding-registers request frame built for slave
\* 0x11, start address 0x0000 and count 2 is the upper-case hex string
\* 1103000000029BC6.
C29_ReadFrameAsQuoted ==
    (codec_in = ReadTwoRegisters /\ "frame" \in DOMAIN codec_out)
    => codec_out.frame = <<"1", "1", "0", "3", "0", "0", "0", "0",
                           "0", "0", "0", "2", "9", "B", "C", "6">>

\* C29: the read-holding-registers request frame built for slave 0x11,
\* start address 0x0000 and count 2 is the upper-case hex string
\* 110300000002C69B: the CRC-16 of the six bytes before it is 0x9BC6, and it
\* is appended low byte first.
C29_ReadFrameLowByteFirst ==
    (codec_in = ReadTwoRegisters /\ "frame" \in DOMAIN codec_out)
    => /\ codec_out.frame = <<"1", "1", "0", "3", "0", "0", "0", "0",
                              "0", "0", "0", "2", "C", "6", "9", "B">>
       /\ calculateCRC(<<SlaveAddress, READ_HOLDING_REGISTERS, 0, 0, 0, 2>>) = 39878

\* the frame for (0x11, 0x0000, 2) was built
C29_Witness ==
    /\ codec_in = ReadTwoRegisters
    /\ "frame" \in DOMAIN codec_out
    /\ Len(codec_out.frame) = 16

\* the value of a hex digit of either case, read off the digit tables
HexDigitValue(c) ==
    (CHOOSE k \in 1..16 : UpperHexChars[k] = c \/ LowerHexChars[k] = c) - 1

\* byte i of a hex string of hex digits
ByteAt(frame_hex, i) ==
    HexDigitValue(frame_hex[2 * i - 1]) * 16 + HexDigitValue(frame_hex[2 * i])

\* a frame parseResponse has to reject: empty, of odd length, with a
\* character that is no hex digit, shorter than 5 bytes, or with last two
\* bytes that are not the CRC-16 (low byte first) of the bytes before them
Malformed(frame_hex) ==
    \/ frame_hex = <<>>
    \/ Len(frame_hex) % 2 = 1
    \/ \E i \in 1..Len(frame_hex) :
          frame_hex[i] \notin Range(UpperHexChars) \cup Range(LowerHexChars)
    \/ Len(frame_hex) \div 2 < 5
    \/ LET n == Len(frame_hex) \div 2
           crc == calculateCRC([i \in 1..(n - 2) |-> ByteAt(frame_hex, i)])
       IN  \/ ByteAt(frame_hex, n - 1) # crc % 256
           \/ ByteAt(frame_hex, n) # crc \div 256

\* C30: parseResponse throws a ModbusException, and returns no response,
\* for every input that is empty, has odd length, contains a non-hex
\* character, decodes to fewer than 5 bytes, or whose last two bytes are not
\* the CRC-16 of the bytes before them; a frame written in lower-case hex
\* digits is parsed as the same frame in upper case.
C30_ParseResponseRejects ==
    (codec_in.op = "parseResponse" /\ codec_out # Pending)
    => /\ Malformed(codec_in.frame_hex)
             => (IsThrow(codec_out) /\ codec_out.throws = "ModbusException")
       /\ \A g \in ResponseFrames :
             codec_in.frame_hex = ToLower(g) => codec_out = parseResponse(g)

\* a frame of valid hex digits and sufficient length whose last byte was
\* altered has been rejected for its CRC
C30_Witness ==
    /\ codec_in.op = "parseResponse"
    /\ codec_in.frame_hex = BadCrcFrame
    /\ IsThrow(codec_out)
    /\ codec_out.what = "CRC validation failed"

\* C32: parseResponse accepts a non-exception 0x03 response only if the
\* frame length equals 3 + byte_count + 2, where byte_count is the third
\* byte: a CRC-valid frame that carries more or fewer bytes is rejected.
C32_LengthEqualsByteCount ==
    (/\ codec_in.op = "parseResponse"
     /\ codec_out # Pending
     /\ ~IsThrow(codec_out)
     /\ codec_out.function_code = READ_HOLDING_REGISTERS
     /\ ~codec_out.is_error)
    => Len(codec_in.frame_hex) \div 2 = 3 + ByteAt(codec_in.frame_hex, 3) + 2

\* C39: with max_retries = 0 every readRegisters/writeRegister call fails
\* without issuing any HTTP attempt, and the failure is counted once
\* (total_requests +1, failed_requests +1, retry_attempts +0).
C39_NoRetryBudgetFailsOnce ==
    \A t \in AdapterThreads :
        (max_retries = 0 /\ Returned(t))
        => /\ IsThrow(result[t])
           /\ attempt_log[t] = <<>>
           /\ Delta(t, "total_requests") = 1
           /\ Delta(t, "failed_requests") = 1
           /\ Delta(t, "retry_attempts") = 0

\* C40: after any sequence of startAcquisition/stopAcquisition calls of the
\* device, failed starts included, whenever no such call is in progress
\* isRunning() equals the scheduler's isPolling(); a startAcquisition that
\* fails on the communication test leaves the device not running and starts
\* no worker.
C40_RunningEqualsPolling ==
    /\ dpc = "idle" => (is_running_ = polling_active_)
    /\ dpc = "start_failed" =>
          (~is_running_ /\ ~polling_active_ /\ WorkerTerminated)

\* a start that failed on the communication test after the device had been
\* started and stopped once
C40_Witness ==
    /\ dpc = "start_failed"
    /\ wpc = "done"
    /\ polling_thread_ = "joined"

\* C37: under any interleaving of startPolling() and stopPolling() calls
\* issued concurrently from different threads, at most one polling worker
\* thread is alive at any time and a worker handle that is still joinable is
\* never overwritten by a new one: a worker is spawned only when the handle
\* is not joinable and the previous worker has returned.
C37_SingleWorker ==
    [][\A c \in SchedulerCallers :
          (cpc[c] = "start_spawn" /\ cpc'[c] # "start_spawn")
          => (polling_thread_ # "joinable" /\ WorkerTerminated)]_vars

\* C34: the scheduler does not hold the callback-list lock while a
\* subscriber runs, so a subscriber (or another thread) can call
\* addSampleCallback/addErrorCallback during a publication without blocking
\* for ever: every subscriber is invoked with callbacks_mutex_ free, and no
\* subscriber is stuck in its call of addSampleCallback.
C34_SubscribersRunUnlocked ==
    /\ [](wpc # "cb_blocked")
    /\ [][Len(delivered') > Len(delivered) => callbacks_mutex_ = "free"]_vars

\* the worker's step reads minimum_registers_ (the loop of performPollCycle)
ReadsMinimumRegisters == wpc = "add_min" /\ wpc' # "add_min"

\* the worker's step reads register_configs_: the collection of the keys in
\* performPollCycle, or the find() of readSingleRegister
ReadsCatalogue ==
    \/ wpc = "collect" /\ wpc' # "collect"
    \/ wpc = "read" /\ read_idx' # read_idx

\* C35: every read of the register catalogue and of the minimum-register
\* list is mutually exclusive with configureRegisters/setMinimumRegisters
\* writing them: no read is made while such a write is in progress.
C35_CatalogueReadsAreExclusive ==
    [][/\ ReadsMinimumRegisters => \A c \in SchedulerCallers : cpc[c] # "set_min"
       /\ ReadsCatalogue => \A c \in SchedulerCallers : cpc[c] # "configure"]_vars

\* the last k elements of a sequence, in its order
LastK(s, k) == SubSeq(s, Len(s) - k + 1, Len(s))

\* C36: the scheduler ring never holds more than its capacity, the oldest
\* sample being evicted first; getRecentSamples(n) returns the min(n, ring
\* size) most recently appended samples in append order (oldest first);
\* getSamplesByRegister(addr, n) returns the last min(n, count) samples of
\* addr, also oldest first.
C36_RingQueries ==
    /\ [](Len(sample_buffer_) <= max_buffer_size_)
    /\ [][sample_buffer_' # sample_buffer_ =>
             LET appended == Append(sample_buffer_, samples[store_idx])
             IN  sample_buffer_' =
                    LastK(appended, Min({Len(appended), max_buffer_size_}))]_vars
    /\ [][(ring_query' # ring_query /\ ring_query'.op = "getRecentSamples") =>
             /\ Len(ring_query'.result) = Min({ring_query'.count, Len(sample_buffer_)})
             /\ \A i \in 1..Len(ring_query'.result) :
                   ring_query'.result[i] =
                      sample_buffer_[Len(sample_buffer_) - Len(ring_query'.result) + i]]_vars
    /\ [][(ring_query' # ring_query /\ ring_query'.op = "getSamplesByRegister") =>
             LET of_register ==
                     SelectSeq(sample_buffer_,
                               LAMBDA sample :
                                  sample.register_address = ring_query'.register_address)
             IN  ring_query'.result =
                    LastK(of_register, Min({ring_query'.count, Len(of_register)}))]_vars

\* a ring of capacity two that holds two samples of register 0 read on
\* different days: the query for two samples of register 0 returned both,
\* the older one first
C36_Witness ==
    /\ ring_query.op = "getSamplesByRegister"
    /\ ring_query.register_address = 0
    /\ ring_query.count = 2
    /\ Len(ring_query.result) = 2
    /\ ring_query.result[1].timestamp < ring_query.result[2].timestamp
    /\ max_buffer_size_ = 2
    /\ statistics_.total_polls = 2

\* C33: a batch write (storeSamples) is a single critical section of the
\* store: a reader running concurrently on the same store never observes a
\* state that contains some but not all samples of one batch.
C33_BatchIsAtomic ==
    ("during" \in DOMAIN storage_result /\ storage_result.during.op = "storeSamples")
    => storage_result.statistics.total_samples - storage_result.during.rows_before
          \in {0, Len(storage_result.during.samples)}

SweeperGone == spc = "none"

\* C31: stopCleanupTask() (and the destructor) joins the sweeper thread
\* before the durable store handle is released: no cleanup call is started
\* or in progress once the durable store has been closed, and once
\* stopCleanupTask() has returned no further cleanup runs.
C31_SweeperJoinedBeforeRelease ==
    /\ sqlite_storage_ = "released" => SweeperGone
    /\ (\A c \in StoreCallers : hpc[c] = Idle) /\ ~cleanup_active_ => SweeperGone

\* the store was destroyed after its sweeper had made a cleanup pass
C31_Witness ==
    /\ sqlite_storage_ = "released"
    /\ storage_op.op = "cleanupLoop"
    /\ storage_op.cleanup

\* C38: under any interleaving of startCleanupTask() and stopCleanupTask()
\* calls, concurrent ones included, at most one sweeper thread exists at any
\* time; two startCleanupTask() calls never create two sweeper threads: a
\* sweeper thread is created only when none exists.
C38_SingleSweeper ==
    [][\A c \in StoreCallers :
          (At(c, "start", "spawn") /\ hpc'[c] # hpc[c])
          => (cleanup_thread_ = "none" /\ SweeperGone)]_vars

====
